---- MODULE Spec2Model ----
(***************************************************************************)
(* Model of the ChatAgents plugin's streaming segmenter and dispatch queue *)
(* (src/plugins/ChatAgents/main.py).                                       *)
(*                                                                         *)
(* A text is a sequence of characters.  A character is a one-character     *)
(* string; a non-ASCII character, and the backtick, is written by its      *)
(* code point: "u3002" for U+3002, "u0060" for the backtick.  Positions    *)
(* are counted as Python counts them: a cut at pos keeps characters        *)
(* 1..pos of the sequence in the segment.                                  *)
(***************************************************************************)
EXTENDS Integers, Sequences, FiniteSets, TLC

\* ------------------------------------------------------------------ bounds

\* most chunks one stream is given
MaxChunks == 4
\* most items put on the dispatch queue in one run of the queue model
MaxItems == 3
\* most calls that raise in one run of the queue model
MaxFaults == 1

\* ------------------------------------------------------- character classes

\* the class T = [.!?\u3002\uFF01\uFF1F\u2026] of split_pattern and of the next_char test
Terminators == {".", "u3002", "uFF01", "uFF1F", "!", "?", "u2026"}

\* what \s matches and str.strip() removes
WhiteSpace == {" ", "\n", "\t"}

Digits == {"0", "1", "2", "3", "4", "5", "6", "7", "8", "9"}

Letters ==
    {"a", "b", "c", "d", "e", "f", "g", "h", "i", "j", "k", "l", "m",
     "n", "o", "p", "q", "r", "s", "t", "u", "v", "w", "x", "y", "z",
     "A", "B", "C", "D", "E", "F", "G", "H", "I", "J", "K", "L", "M",
     "N", "O", "P", "Q", "R", "S", "T", "U", "V", "W", "X", "Y", "Z",
     "u4F60", "u597D", "u5417", "u6211", "u5F88"}

\* what \w matches on a str pattern: letters of any script, digits, underscore
WordChars == Letters \cup Digits \cup {"_"}

\* the class [:\uFF1A] of the look-behind of split_pattern's second branch
Colons == {":", "uFF1A"}

\* paired_symbols: opening mark -> closing mark
paired_symbols ==
    [c \in {"'", "\"", "u201C", "u2018"} |->
        CASE c = "'" -> "'"
          [] c = "\"" -> "\""
          [] c = "u201C" -> "u201D"
          [] c = "u2018" -> "u2019"]

\* the keys and the values of paired_symbols
QuoteMarks == DOMAIN paired_symbols \cup {paired_symbols[c] : c \in DOMAIN paired_symbols}

\* ------------------------------------------------------------ str helpers

\* text[n:]
Drop(text, n) == SubSeq(text, n + 1, Len(text))

\* text[:n]
Take(text, n) == SubSeq(text, 1, n)

HasNonWs(text) == \E i \in 1..Len(text) : text[i] \notin WhiteSpace

\* str.strip()
Strip(text) ==
    IF HasNonWs(text)
    THEN SubSeq(text,
                CHOOSE i \in 1..Len(text) :
                    /\ text[i] \notin WhiteSpace
                    /\ \A j \in 1..(i - 1) : text[j] \in WhiteSpace,
                CHOOSE i \in 1..Len(text) :
                    /\ text[i] \notin WhiteSpace
                    /\ \A j \in (i + 1)..Len(text) : text[j] \in WhiteSpace)
    ELSE <<>>

\* text[from:].count(three backticks): the occurrences are counted left to
\* right without overlap, so a position starts a counted occurrence when three
\* backticks start there and the backticks just before it, back to the start of
\* the slice, make up whole occurrences
CountFence(text, from) ==
    LET IsTick(i) == text[i] = "u0060"
        TicksBefore(i) ==
            i - (CHOOSE j \in (from + 1)..i :
                    /\ \A k \in j..(i - 1) : IsTick(k)
                    /\ j = from + 1 \/ ~IsTick(j - 1))
    IN  Cardinality({i \in (from + 1)..(Len(text) - 2) :
            /\ IsTick(i) /\ IsTick(i + 1) /\ IsTick(i + 2)
            /\ TicksBefore(i) % 3 = 0})

\* ------------------------------------------------------------ split_pattern

\* the end of the longest run of characters of class cls starting at position p
RunEnd(text, p, cls) ==
    CHOOSE q \in p..Len(text) :
        /\ \A k \in (p + 1)..q : text[k] \in cls
        /\ q = Len(text) \/ text[q + 1] \notin cls

\* (?<!\.)\s+\w+[T]+(?![T]) tried at position s: the end of the
\* match, or -1.  The three classes are disjoint, so each greedy run is maximal.
MatchSentence(text, s) ==
    LET a == RunEnd(text, s, WhiteSpace)
        b == RunEnd(text, a, WordChars)
        c == RunEnd(text, b, Terminators)
    IN  IF /\ (s = 0 \/ text[s] # ".")
           /\ a > s /\ b > a /\ c > b
           /\ (c = Len(text) \/ text[c + 1] \notin Terminators)
        THEN c
        ELSE -1

\* (?<![:\uFF1A])\n\n tried at position s: the end of the match, or -1
MatchParagraph(text, s) ==
    IF /\ s + 2 <= Len(text)
       /\ text[s + 1] = "\n" /\ text[s + 2] = "\n"
       /\ (s = 0 \/ text[s] \notin Colons)
    THEN s + 2
    ELSE -1

\* split_pattern tried at position s: the first branch that matches wins
MatchAt(text, s) ==
    IF MatchSentence(text, s) # -1 THEN MatchSentence(text, s) ELSE MatchParagraph(text, s)

\* list(split_pattern.finditer(text))[-1].end(), or -1 when nothing matches:
\* the scan goes left to right and resumes at the end of each match
RECURSIVE LastMatchEnd(_, _, _)
LastMatchEnd(text, s, last) ==
    IF s >= Len(text)
    THEN last
    ELSE IF MatchAt(text, s) # -1
         THEN LastMatchEnd(text, MatchAt(text, s), MatchAt(text, s))
         ELSE LastMatchEnd(text, s + 1, last)

\* ------------------------------------------------ _check_chunk_end_for_split

max_look_back == 50

\* how far the code-fence check reaches back beyond the tail
fence_look_back == 100

Max(a, b) == IF a >= b THEN a ELSE b

\* one step of the quote-pairing loop
QuoteStep(stack, char) ==
    IF char \in QuoteMarks
    THEN IF stack = <<>>
            \/ stack[Len(stack)] \notin DOMAIN paired_symbols
            \/ char # paired_symbols[stack[Len(stack)]]
         THEN Append(stack, char)
         ELSE Take(stack, Len(stack) - 1)
    ELSE stack

\* the stack the quote-pairing loop leaves after text[:n]
RECURSIVE QuoteStack(_, _)
QuoteStack(text, n) ==
    IF n = 0 THEN <<>> ELSE QuoteStep(QuoteStack(text, n - 1), text[n])

\* the odd-fence test: the tail, and then the extended text, hold an odd count
InCodeBlock(text, check_start) ==
    /\ CountFence(text, check_start) % 2 # 0
    /\ CountFence(text, Max(0, check_start - fence_look_back)) % 2 # 0

\* the search for the last split position of the tail, as a position of text
FindSplit(text, check_start) ==
    LET tail_text == Drop(text, check_start)
        end == LastMatchEnd(tail_text, 0, -1)
        global_pos == check_start + end
    IN  IF /\ end # -1
           /\ (global_pos >= Len(text) \/ text[global_pos + 1] \notin Terminators)
        THEN [found |-> TRUE, pos |-> global_pos, in_special |-> FALSE]
        ELSE [found |-> FALSE, pos |-> -1, in_special |-> FALSE]

_check_chunk_end_for_split(text) ==
    LET check_start == Max(0, Len(text) - max_look_back)
        tail_text == Drop(text, check_start)
    IN  IF text = <<>>
        THEN [found |-> FALSE, pos |-> -1, in_special |-> FALSE]
        ELSE IF InCodeBlock(text, check_start)
        THEN [found |-> FALSE, pos |-> -1, in_special |-> TRUE]
        ELSE IF QuoteStack(tail_text, Len(tail_text)) # <<>>
        THEN [found |-> FALSE, pos |-> -1, in_special |-> TRUE]
        ELSE FindSplit(text, check_start)

\* ------------------------------------------------------------ stream chunks

\* A chunk of the backend stream.  is_dict: the chunk is a dict at all;
\* reasoning_content and content: the two fields of its delta (<<>> when absent
\* or empty); content_is_dict: the content is a structured notice, whose own
\* chunk_type is notice_type; chunk_type: the chunk's chunk_type.
TextChunk(text, type) ==
    [is_dict |-> TRUE, reasoning_content |-> <<>>, content |-> text,
     content_is_dict |-> FALSE, notice_type |-> "", chunk_type |-> type]

NoticeChunk(type) ==
    [is_dict |-> TRUE, reasoning_content |-> <<>>, content |-> <<>>,
     content_is_dict |-> TRUE, notice_type |-> type, chunk_type |-> ""]

ReasoningChunk(text) ==
    [is_dict |-> TRUE, reasoning_content |-> text, content |-> <<>>,
     content_is_dict |-> FALSE, notice_type |-> "", chunk_type |-> ""]

\* "Hello world. This "
HelloWorldThis ==
    <<"H", "e", "l", "l", "o", " ", "w", "o", "r", "l", "d", ".", " ", "T", "h", "i", "s", " ">>
\* "is a test."
IsATest == <<"i", "s", " ", "a", " ", "t", "e", "s", "t", ".">>
\* "Hello"
Hello == <<"H", "e", "l", "l", "o">>
\* "  \n"
Blank == <<" ", " ", "\n">>
\* "\n\nNext"
ParagraphNext == <<"\n", "\n", "N", "e", "x", "t">>
\* three backticks, "py\n"
FenceOpen == <<"u0060", "u0060", "u0060", "p", "y", "\n">>
\* "x = compute(a, b) # fifty chars of code follow here "
CodeLine ==
    <<"x", " ", "=", " ", "c", "o", "m", "p", "u", "t", "e", "(", "a", ",", " ", "b", ")", " ",
      "#", " ", "f", "i", "f", "t", "y", " ", "c", "h", "a", "r", "s", " ", "o", "f", " ",
      "c", "o", "d", "e", " ", "f", "o", "l", "l", "o", "w", " ", "h", "e", "r", "e", " ">>
\* "and done. more"
AndDoneMore == <<"a", "n", "d", " ", "d", "o", "n", "e", ".", " ", "m", "o", "r", "e">>
\* three backticks, "\n"
FenceClose == <<"u0060", "u0060", "u0060", "\n">>
\* a left double quotation mark
QuoteOpen == <<"u201C">>
\* "He began a long speech that went on and on and on for ages"
LongSpeech ==
    <<"H", "e", " ", "b", "e", "g", "a", "n", " ", "a", " ", "l", "o", "n", "g", " ",
      "s", "p", "e", "e", "c", "h", " ", "t", "h", "a", "t", " ", "w", "e", "n", "t", " ",
      "o", "n", " ", "a", "n", "d", " ", "o", "n", " ", "a", "n", "d", " ", "o", "n", " ",
      "f", "o", "r", " ", "a", "g", "e", "s">>
\* " and done. more"
SpAndDoneMore == <<" ">> \o AndDoneMore
\* a right double quotation mark, " she said. "
QuoteCloseSaid == <<"u201D", " ", "s", "h", "e", " ", "s", "a", "i", "d", ".", " ">>
\* "The value is 3.14 ok"
ValueIsPi ==
    <<"T", "h", "e", " ", "v", "a", "l", "u", "e", " ", "i", "s", " ", "3", ".", "1", "4", " ", "o", "k">>
\* "pi is about 3."
PiIsAbout == <<"p", "i", " ", "i", "s", " ", "a", "b", "o", "u", "t", " ", "3", ".">>
\* U+4F60 U+597D U+5417 U+FF1F U+6211 U+5F88 U+597D U+3002: two CJK sentences
CjkSentences == <<"u4F60", "u597D", "u5417", "uFF1F", "u6211", "u5F88", "u597D", "u3002">>
\* "Hi"
Hi == <<"H", "i">>
\* " there friend."
ThereFriend == <<" ", "t", "h", "e", "r", "e", " ", "f", "r", "i", "e", "n", "d", ".">>
\* "(typing)"
Typing == <<"(", "t", "y", "p", "i", "n", "g", ")">>
\* "hm"
Hm == <<"h", "m">>

\* " world."
SpWorld == <<" ", "w", "o", "r", "l", "d", ".">>
\* " This is"
SpThisIs == <<" ", "T", "h", "i", "s", " ", "i", "s">>
\* " a test."
SpATest == <<" ", "a", " ", "t", "e", "s", "t", ".">>
\* ".. or is it so?"
DotsOrIsIt ==
    <<".", ".", " ", "o", "r", " ", "i", "s", " ", "i", "t", " ", "s", "o", "?">>

\* a chunk whose delta holds reasoning text and answer text at once
ThinkingHello ==
    [is_dict |-> TRUE, reasoning_content |-> Hm, content |-> Hello,
     content_is_dict |-> FALSE, notice_type |-> "", chunk_type |-> ""]

\* The chunks a stream is made of, by kind of reply: plain sentences, a code
\* block, a quotation, numbers and CJK text, notices with reasoning, sentences
\* that come word by word.
Vocabulary ==
    << {TextChunk(HelloWorldThis, ""), TextChunk(IsATest, ""), TextChunk(Hello, ""),
        TextChunk(ParagraphNext, "")},
       {TextChunk(FenceOpen, ""), TextChunk(CodeLine, "big_chunk"),
        TextChunk(AndDoneMore, ""), TextChunk(FenceClose, "")},
       {TextChunk(QuoteOpen, ""), TextChunk(LongSpeech, "big_chunk"),
        TextChunk(SpAndDoneMore, ""), TextChunk(QuoteCloseSaid, "")},
       {TextChunk(ValueIsPi, ""), TextChunk(PiIsAbout, ""),
        TextChunk(CjkSentences, ""), TextChunk(Blank, "")},
       {TextChunk(Hi, ""), NoticeChunk("script_finished"), TextChunk(ThereFriend, ""),
        TextChunk(Typing, "connect"), ReasoningChunk(Hm), ThinkingHello},
       {TextChunk(Hello, ""), TextChunk(SpWorld, ""), TextChunk(SpThisIs, ""),
        TextChunk(SpATest, ""), TextChunk(DotsOrIsIt, "")} >>

\* the text of the apology put on the queue when a reply cannot be produced:
\* U+62B1 U+6B49 "," U+7CFB U+7EDF U+51FA U+73B0 U+9519 U+8BEF
Apology == <<"u62B1", "u6B49", ",", "u7CFB", "u7EDF", "u51FA", "u73B0", "u9519", "u8BEF">>

\* the conversations replies go to
Conversations == {"room1@chatroom", "wxid_peer"}

\* ------------------------------------------------------------------- state

VARIABLES
    message_queue,          \* self.message_queue: the items put and not yet got
    put_count,              \* how many items were ever put (numbers the items)
    \* _handle_stream_response, one streamed reply
    stream_pc,              \* "iter": in the for loop; "done"; "failed"
    from_wxid,              \* the conversation of the reply
    stream_split_sentence,  \* the configuration switch
    content_buffer,
    reasoning_buffer,
    reasoning_finished,
    vocabulary,             \* the kind of reply the backend streams
    chunks_seen,            \* history: the chunks the loop has taken
    cuts,                   \* history: each mid-stream cut: the buffer checked, the position
                            \* and the number of the chunk it was made at
    \* _message_sender, the one consumer of the queue
    sender_pc,              \* where the loop is: "get", "notice", "notice_hist", "choose",
                            \* "voice", "send", "hist", "sleep", "sleeping"
    enable_voice,           \* the configuration switch
    msg,                    \* the item got, NoMsg before the first
    queue_size,             \* qsize() read right after the get
    content,                \* the text of msg after the echo prefix is removed
    channel,                \* "text" or "voice": what the item is sent as
    wait_time,              \* the pause the sender is in, 0 when in none
    sends,                  \* history: the calls of bot.send_*_message, in order
    hist,                   \* history: the calls of append_msg2hist that returned
    failures,               \* history: the exceptions the except clause logged
    ignored,                \* history: the items let go with no call of bot.send_*
    \* XYBot, the normalizer of the envelopes received (src/utils/xybot.py)
    ignore_mode,            \* "Whitelist", "blacklist" or another mode
    whitelist,
    blacklist,
    ignore_protection,      \* the configuration switch
    protection,             \* what protector.check(14400) returns
    arrived,                \* history: the envelopes given to process_message
    messages,               \* history: the message dict of each as process_message left
                            \* it, how it ended, and what protector.check returned
    calls,                  \* history: the calls of save_message and EventManager.emit
    \* the thread pool the stream handlers run on
    streams,                \* of each conversation, the streamed reply: where it is and
                            \* the fragments the backend has sent that are not yet taken
    work_queue,             \* the handlers submitted that no worker has taken, in order
    \* should_respond
    last_group_chat_time,   \* self.last_group_chat_time: of a group, the time recorded
    respond_calls,          \* history: the calls of should_respond and what they returned
    \* _split_content_by_punctuation, one call
    split_pc,               \* "idle", "loop": at the while test, "returned"
    split_input,            \* the argument content
    split_buffer,           \* the local content_buffer
    last_check_length,
    split_result,           \* the local result
    split_turns             \* history: how many turns the while loop has taken

stream_vars ==
    <<stream_pc, from_wxid, stream_split_sentence, content_buffer, reasoning_buffer,
      reasoning_finished, vocabulary, chunks_seen, cuts>>

queue_vars == <<message_queue, put_count>>

sender_vars ==
    <<sender_pc, enable_voice, msg, queue_size, content, channel, wait_time, sends, hist,
      failures, ignored>>

xybot_vars ==
    <<ignore_mode, whitelist, blacklist, ignore_protection, protection, arrived, messages,
      calls>>

pool_vars == <<streams, work_queue>>

policy_vars == <<last_group_chat_time, respond_calls>>

split_vars ==
    <<split_pc, split_input, split_buffer, last_check_length, split_result, split_turns>>

vars ==
    <<queue_vars, stream_vars, sender_vars, xybot_vars, pool_vars, policy_vars, split_vars>>

\* ---------------------------------------------------------- message_queue

\* the tuple (bot, from_wxid, content) put on the queue, numbered by put order
Item(n, wxid, is_notice, text, type) ==
    [seq |-> n, from_wxid |-> wxid, is_dict |-> is_notice, content |-> text,
     chunk_type |-> type]

\* self.message_queue.put((bot, from_wxid, content)) for a text
PutText(wxid, text) ==
    /\ message_queue' = Append(message_queue, Item(put_count + 1, wxid, FALSE, text, ""))
    /\ put_count' = put_count + 1

\* self.message_queue.put((bot, from_wxid, content)) for a dict
PutNotice(wxid, type) ==
    /\ message_queue' = Append(message_queue, Item(put_count + 1, wxid, TRUE, <<>>, type))
    /\ put_count' = put_count + 1

\* no item: the sender has got nothing yet
NoMsg == Item(0, "", FALSE, <<>>, "")

\* ------------------------------------------------- _handle_stream_response

\* the shortest buffer the split check is run on
min_split_length == 10

\* what is cut off the buffer at pos
SegmentAt(buffer, pos) == Strip(Take(buffer, pos))

\* what stays in the buffer after a cut at pos
RemainderAt(buffer, pos) == Strip(Drop(buffer, pos))

\* a buffer that takes the reasoning text of the chunk as well
BufferedWithReasoning(buffer, chunk) ==
    IF chunk.chunk_type # "connect"
    THEN buffer \o chunk.reasoning_content \o chunk.content
    ELSE buffer

\* the buffer after the chunk's content is added
Buffered(buffer, chunk) ==
    IF chunk.chunk_type # "connect" THEN buffer \o chunk.content ELSE buffer

\* the split check of the loop body: whether a cut is made in buffer, and where
SplitDecision(buffer) ==
    IF stream_split_sentence /\ Len(buffer) >= min_split_length
    THEN LET r == _check_chunk_end_for_split(buffer)
         IN  IF r.found /\ ~r.in_special /\ SegmentAt(buffer, r.pos) # <<>>
             THEN [cut |-> TRUE, pos |-> r.pos]
             ELSE [cut |-> FALSE, pos |-> -1]
    ELSE [cut |-> FALSE, pos |-> -1]

\* the reasoning part of the loop body
ReasoningStep(chunk) ==
    IF chunk.content # <<>> \/ chunk.content_is_dict
    THEN /\ reasoning_finished' = TRUE
         /\ reasoning_buffer' = IF reasoning_finished
                                THEN reasoning_buffer \o chunk.reasoning_content
                                ELSE <<>>
    ELSE /\ reasoning_finished' = reasoning_finished
         /\ reasoning_buffer' = reasoning_buffer \o chunk.reasoning_content

\* one pass of "for chunk in reply" over a well-formed chunk
HandleChunk ==
    /\ stream_pc = "iter"
    /\ Len(chunks_seen) < MaxChunks
    /\ \E chunk \in Vocabulary[vocabulary] :
        /\ chunks_seen' = Append(chunks_seen, chunk)
        /\ ReasoningStep(chunk)
        /\ IF chunk.content_is_dict
           THEN /\ PutNotice(from_wxid, chunk.notice_type)
                /\ UNCHANGED <<content_buffer, cuts>>
           ELSE IF chunk.content = <<>>
           THEN UNCHANGED <<content_buffer, cuts, queue_vars>>
           ELSE LET buffer == Buffered(content_buffer, chunk)
                    d == SplitDecision(buffer)
                IN  IF d.cut
                    THEN /\ PutText(from_wxid, SegmentAt(buffer, d.pos))
                         /\ content_buffer' = RemainderAt(buffer, d.pos)
                         /\ cuts' = Append(cuts, [buffer |-> buffer, pos |-> d.pos,
                                                  chunk |-> Len(chunks_seen) + 1])
                    ELSE /\ content_buffer' = buffer
                         /\ UNCHANGED <<cuts, queue_vars>>
    /\ UNCHANGED <<stream_pc, from_wxid, stream_split_sentence, vocabulary, sender_vars, xybot_vars, pool_vars, policy_vars, split_vars>>

\* a flush that holds the buffer to the minimum length of a segment
FinalFlushLongEnough(buffer) ==
    IF Strip(buffer) # <<>> /\ Len(buffer) >= min_split_length THEN <<buffer>> ELSE <<>>

\* what the code after the loop puts for the buffer left: the items, in order
FinalFlush(buffer) == IF Strip(buffer) # <<>> THEN <<buffer>> ELSE <<>>

\* the reply ends: the code after the loop
StreamEnd ==
    /\ stream_pc = "iter"
    /\ stream_pc' = "done"
    /\ IF FinalFlush(content_buffer) # <<>>
       THEN PutText(from_wxid, FinalFlush(content_buffer)[1])
       ELSE UNCHANGED queue_vars
    /\ UNCHANGED <<from_wxid, stream_split_sentence, content_buffer, reasoning_buffer,
                   reasoning_finished, vocabulary, chunks_seen, cuts, sender_vars, xybot_vars, pool_vars, policy_vars, split_vars>>

\* what the except clause puts on the queue, given the buffer at the raise
OnStreamError(buffer) == <<Apology>>

\* the reply raises inside the loop (a chunk that is no dict, a line that is no
\* JSON, a broken connection): the except clause
StreamRaise ==
    /\ stream_pc = "iter"
    /\ stream_pc' = "failed"
    /\ PutText(from_wxid, OnStreamError(content_buffer)[1])
    /\ UNCHANGED <<from_wxid, stream_split_sentence, content_buffer, reasoning_buffer,
                   reasoning_finished, vocabulary, chunks_seen, cuts, sender_vars, xybot_vars, pool_vars, policy_vars, split_vars>>

\* the conversations a streamed reply can be for
Callers == Conversations \cup {"wxid_friend"}

\* no reply has been streamed: the thread pool is idle
PoolIdle ==
    /\ streams = [caller \in Callers |-> [state |-> "none", pending |-> <<>>]]
    /\ work_queue = <<>>

\* no call of should_respond yet: self.last_group_chat_time = {}
PolicyIdle ==
    /\ last_group_chat_time = << >>
    /\ respond_calls = <<>>

\* _split_content_by_punctuation is not being called
SplitIdle ==
    /\ split_pc = "idle"
    /\ split_input = <<>>
    /\ split_buffer = <<>>
    /\ last_check_length = 0
    /\ split_result = <<>>
    /\ split_turns = 0

\* XYBot as __init__ leaves it when main_config.toml sets nothing, no envelope
\* received yet
XYBotIdle ==
    /\ ignore_mode = ""
    /\ whitelist = {}
    /\ blacklist = {}
    /\ ignore_protection = FALSE
    /\ protection = FALSE
    /\ arrived = <<>>
    /\ messages = <<>>
    /\ calls = <<>>

\* the sender thread started by __init__, blocked in its first get
SenderInit ==
    /\ sender_pc = "get"
    /\ enable_voice \in BOOLEAN
    /\ msg = NoMsg
    /\ queue_size = 0
    /\ content = <<>>
    /\ channel = "text"
    /\ wait_time = 0
    /\ sends = <<>>
    /\ hist = <<>>
    /\ failures = <<>>
    /\ ignored = <<>>

StreamInit ==
    /\ message_queue = <<>>
    /\ put_count = 0
    /\ SenderInit
    /\ XYBotIdle
    /\ PoolIdle
    /\ PolicyIdle
    /\ SplitIdle
    /\ enable_voice = FALSE
    /\ stream_pc = "iter"
    /\ from_wxid \in Conversations
    /\ stream_split_sentence \in BOOLEAN
    /\ content_buffer = <<>>
    /\ reasoning_buffer = <<>>
    /\ reasoning_finished = FALSE
    /\ vocabulary \in DOMAIN Vocabulary
    /\ chunks_seen = <<>>
    /\ cuts = <<>>

StreamNext == HandleChunk \/ StreamEnd \/ StreamRaise

\* one streamed reply, from its first chunk to its end
StreamSpec == StreamInit /\ [][StreamNext]_vars

\* --------------------------------------------------------- _message_sender

\* self.main_name, "Ai"
main_name == <<"A", "i">>

\* the literal start of the echo-prefix pattern, "[msg_id"
EchoOpen == <<"[", "m", "s", "g", "_", "i", "d">>

\* the end of pattern \[msg_id.*?{main_name}：, main_name and a full-width colon
EchoClose == main_name \o <<"uFF1A">>

StartsWith(text, at, word) ==
    /\ at + Len(word) <= Len(text)
    /\ SubSeq(text, at + 1, at + Len(word)) = word

\* the echo-prefix pattern tried at position s: the end of the match, or -1.
\* .*? takes as few characters as it can and never a newline.
EchoMatchEnd(text, s) ==
    LET from == s + Len(EchoOpen)
        Closes(j) ==
            /\ StartsWith(text, j, EchoClose)
            /\ \A k \in (from + 1)..j : text[k] # "\n"
    IN  IF StartsWith(text, s, EchoOpen) /\ \E j \in from..Len(text) : Closes(j)
        THEN (CHOOSE j \in from..Len(text) :
                Closes(j) /\ \A i \in from..(j - 1) : ~Closes(i)) + Len(EchoClose)
        ELSE -1

\* re.sub(echo-prefix pattern, '', text[s:])
RECURSIVE StripEcho(_, _)
StripEcho(text, s) ==
    IF s >= Len(text)
    THEN <<>>
    ELSE IF EchoMatchEnd(text, s) # -1
         THEN StripEcho(text, EchoMatchEnd(text, s))
         ELSE <<text[s + 1]>> \o StripEcho(text, s + 1)

\* the classes [([{（] and [)\]}）] of the bracket pattern
BracketOpen == {"(", "[", "{", "uFF08"}
BracketClose == {")", "]", "}", "uFF09"}

\* the bracket pattern tried at position s: the end of the match, or -1
BracketMatchEnd(text, s) ==
    LET Closes(j) ==
            /\ text[j] \in BracketClose
            /\ \A k \in (s + 2)..(j - 1) : text[k] # "\n"
    IN  IF text[s + 1] \in BracketOpen /\ \E j \in (s + 2)..Len(text) : Closes(j)
        THEN CHOOSE j \in (s + 2)..Len(text) :
                Closes(j) /\ \A i \in (s + 2)..(j - 1) : ~Closes(i)
        ELSE -1

\* re.sub(bracket pattern, '', text[s:])
RECURSIVE StripBrackets(_, _)
StripBrackets(text, s) ==
    IF s >= Len(text)
    THEN <<>>
    ELSE IF BracketMatchEnd(text, s) # -1
         THEN StripBrackets(text, BracketMatchEnd(text, s))
         ELSE <<text[s + 1]>> \o StripBrackets(text, s + 1)

max_voice_length == 28

\* the shortest bracket-stripped content a voice message is made of
min_voice_length == 4

\* the queue size above which the pause is cut short
backlog_threshold == 3

\* random.random() draws one of 0/RandomGrid .. (RandomGrid-1)/RandomGrid
RandomGrid == 4

Clamp(x, low, high) == IF x < low THEN low ELSE IF x > high THEN high ELSE x

\* voice_probability = min(max(1 - length / max_voice_length, 0.2), 0.6), as a
\* multiple of 1 / (5 * max_voice_length)
VoiceProbability(length) ==
    Clamp(5 * (max_voice_length - length), max_voice_length, 3 * max_voice_length)

\* a choice by the draw alone, whatever the length
VoiceChosenByDraw(length, r) ==
    5 * max_voice_length * r < RandomGrid * VoiceProbability(length)

\* random.random() < voice_probability and content_wo_bracket_len >= 4, for
\* the draw r / RandomGrid
VoiceChosen(length, r) ==
    /\ 5 * max_voice_length * r < RandomGrid * VoiceProbability(length)
    /\ length >= min_voice_length

\* a pause that grows with the backlog
WaitTimeGrowing(size, r) ==
    IF size > backlog_threshold THEN 15 * RandomGrid ELSE 8 * RandomGrid + 4 * r

\* wait_time, as a multiple of auto_send_interval / (10 * RandomGrid), for the
\* draw r / RandomGrid
WaitTime(size, r) ==
    IF size > backlog_threshold THEN 5 * RandomGrid ELSE 8 * RandomGrid + 4 * r

\* a queue that hands out its newest item first
DequeueLast(queue) ==
    [msg |-> queue[Len(queue)], rest |-> SubSeq(queue, 1, Len(queue) - 1)]

\* msg = self.message_queue.get(): the item got and the queue left
Dequeue(queue) == [msg |-> Head(queue), rest |-> Tail(queue)]

\* a sender whose loop ends at the first exception
AfterExceptionStops == "stopped"

\* where the loop goes on after the except clause has logged an exception
AfterException == "get"

\* the outcomes of a call that returns (TRUE) or raises (FALSE)
Outcomes == IF Len(failures) < MaxFaults THEN BOOLEAN ELSE {TRUE}

\* an except clause around the send alone: after it the loop body goes on
CaughtGoesOn(step) ==
    /\ failures' = Append(failures, [seq |-> msg.seq, step |-> step])
    /\ sender_pc' = IF step = "send" THEN "hist" ELSE AfterException

\* the except clause: the exception is logged and the loop goes round
Caught(step) ==
    /\ failures' = Append(failures, [seq |-> msg.seq, step |-> step])
    /\ sender_pc' = AfterException

\* a call of bot.send_*_message, as kind, that returns or raises
SendCall(kind, ok) ==
    sends' = Append(sends, [seq |-> msg.seq, from_wxid |-> msg.from_wxid,
                            channel |-> kind, ok |-> ok])

\* what the loop does with a dict item right after the get: "notice" to send it
\* as a link, "get" to go round with nothing sent
NoticeBranch(type) == IF type = "script_finished" THEN "notice" ELSE "get"

\* msg = self.message_queue.get(), the qsize() and the branch on the content
SenderGet ==
    /\ sender_pc = "get"
    /\ message_queue # <<>>
    /\ \E got \in {Dequeue(message_queue).msg} :
        /\ msg' = got
        /\ message_queue' = Dequeue(message_queue).rest
        /\ queue_size' = Len(Dequeue(message_queue).rest)
        /\ IF got.is_dict
           THEN /\ sender_pc' = NoticeBranch(got.chunk_type)
                /\ ignored' = IF NoticeBranch(got.chunk_type) = "get"
                              THEN Append(ignored, got.seq)
                              ELSE ignored
                /\ UNCHANGED content
           ELSE /\ sender_pc' = "choose"
                /\ \E substituted \in {StripEcho(got.content, 0)} :
                        content' = Strip(substituted)
                /\ UNCHANGED ignored
    /\ UNCHANGED <<put_count, stream_vars, xybot_vars, pool_vars, policy_vars, split_vars, enable_voice, channel, wait_time, sends, hist,
                   failures>>

\* bot.send_link_message for a script_finished notice
SenderNoticeSend ==
    /\ sender_pc = "notice"
    /\ \E ok \in Outcomes :
        /\ SendCall("link", ok)
        /\ IF ok
           THEN sender_pc' = "notice_hist" /\ UNCHANGED failures
           ELSE Caught("send")
    /\ UNCHANGED <<queue_vars, stream_vars, xybot_vars, pool_vars, policy_vars, split_vars, enable_voice, msg, queue_size, content, channel,
                   wait_time, hist, ignored>>

\* append_msg2hist and task_done for a script_finished notice
SenderNoticeHist ==
    /\ sender_pc = "notice_hist"
    /\ \E ok \in Outcomes :
        IF ok
        THEN /\ hist' = Append(hist, msg.seq)
             /\ sender_pc' = "get"
             /\ UNCHANGED failures
        ELSE Caught("hist") /\ UNCHANGED hist
    /\ UNCHANGED <<queue_vars, stream_vars, xybot_vars, pool_vars, policy_vars, split_vars, enable_voice, msg, queue_size, content, channel,
                   wait_time, sends, ignored>>

\* the choice between a voice and a text message
SenderChoose ==
    /\ sender_pc = "choose"
    /\ IF enable_voice
       THEN \E r \in 0..(RandomGrid - 1) :
                IF VoiceChosen(Len(StripBrackets(content, 0)), r)
                THEN sender_pc' = "voice" /\ channel' = "voice"
                ELSE sender_pc' = "send" /\ channel' = "text"
       ELSE sender_pc' = "send" /\ channel' = "text"
    /\ UNCHANGED <<queue_vars, stream_vars, xybot_vars, pool_vars, policy_vars, split_vars, enable_voice, msg, queue_size, content, wait_time,
                   sends, hist, failures, ignored>>

\* gen_voice: it returns the audio, returns nothing, or raises
SenderVoice ==
    /\ sender_pc = "voice"
    /\ \E result \in {"data", "empty"} \cup {"raise" : ok \in Outcomes \ {TRUE}} :
        CASE result = "data" -> sender_pc' = "send" /\ UNCHANGED <<channel, failures>>
          [] result = "empty" ->
                sender_pc' = "send" /\ channel' = "text" /\ UNCHANGED failures
          [] result = "raise" -> Caught("voice") /\ UNCHANGED channel
    /\ UNCHANGED <<queue_vars, stream_vars, xybot_vars, pool_vars, policy_vars, split_vars, enable_voice, msg, queue_size, content, wait_time,
                   sends, hist, ignored>>

\* bot.send_voice_message or bot.send_text_message
SenderSend ==
    /\ sender_pc = "send"
    /\ \E ok \in Outcomes :
        /\ SendCall(channel, ok)
        /\ IF ok
           THEN sender_pc' = "hist" /\ UNCHANGED failures
           ELSE Caught("send")
    /\ UNCHANGED <<queue_vars, stream_vars, xybot_vars, pool_vars, policy_vars, split_vars, enable_voice, msg, queue_size, content, channel,
                   wait_time, hist, ignored>>

\* append_msg2hist for the text sent
SenderHist ==
    /\ sender_pc = "hist"
    /\ \E ok \in Outcomes :
        IF ok
        THEN /\ hist' = Append(hist, msg.seq)
             /\ sender_pc' = "sleep"
             /\ UNCHANGED failures
        ELSE Caught("hist") /\ UNCHANGED hist
    /\ UNCHANGED <<queue_vars, stream_vars, xybot_vars, pool_vars, policy_vars, split_vars, enable_voice, msg, queue_size, content, channel,
                   wait_time, sends, ignored>>

\* a pause that is started and not awaited: the loop goes round at once
SenderSleepDetached ==
    /\ sender_pc = "sleep"
    /\ \E r \in 0..(RandomGrid - 1) :
        /\ wait_time' = WaitTime(queue_size, r)
        /\ sender_pc' = "get"
    /\ UNCHANGED <<queue_vars, stream_vars, xybot_vars, pool_vars, policy_vars, split_vars, enable_voice, msg, queue_size, content, channel,
                   sends, hist, failures, ignored>>

\* the pause after a send is chosen and begins
SenderSleep ==
    /\ sender_pc = "sleep"
    /\ \E r \in 0..(RandomGrid - 1), ok \in Outcomes :
        IF ok
        THEN /\ wait_time' = WaitTime(queue_size, r)
             /\ sender_pc' = "sleeping"
             /\ UNCHANGED failures
        ELSE Caught("sleep") /\ UNCHANGED wait_time
    /\ UNCHANGED <<queue_vars, stream_vars, xybot_vars, pool_vars, policy_vars, split_vars, enable_voice, msg, queue_size, content, channel,
                   sends, hist, ignored>>

\* the pause is over: task_done, and the loop goes round
SenderWake ==
    /\ sender_pc = "sleeping"
    /\ sender_pc' = "get"
    /\ wait_time' = 0
    /\ UNCHANGED <<queue_vars, stream_vars, xybot_vars, pool_vars, policy_vars, split_vars, enable_voice, msg, queue_size, content, channel,
                   sends, hist, failures, ignored>>

\* "[msg_id:7] Ai" and a full-width colon, "Hello (smiles) there"
EchoedHello ==
    <<"[", "m", "s", "g", "_", "i", "d", ":", "7", "]", " ", "A", "i", "uFF1A",
      "H", "e", "l", "l", "o", " ", "(", "s", "m", "i", "l", "e", "s", ")", " ",
      "t", "h", "e", "r", "e">>

\* "[msg_id:7] Ai" and a full-width colon: the echo prefix and nothing after it
EchoOnly ==
    <<"[", "m", "s", "g", "_", "i", "d", ":", "7", "]", " ", "A", "i", "uFF1A">>

\* what the producers put: the conversation, and a text or a notice of a
\* chunk type
Messages ==
    {[from_wxid |-> "room1@chatroom", is_dict |-> FALSE, content |-> EchoedHello,
      chunk_type |-> ""],
     [from_wxid |-> "room1@chatroom", is_dict |-> FALSE, content |-> Hi, chunk_type |-> ""],
     [from_wxid |-> "room1@chatroom", is_dict |-> TRUE, content |-> <<>>,
      chunk_type |-> "script_finished"],
     [from_wxid |-> "wxid_peer", is_dict |-> FALSE, content |-> EchoedHello, chunk_type |-> ""],
     [from_wxid |-> "wxid_peer", is_dict |-> TRUE, content |-> <<>>, chunk_type |-> "other"]}

\* a producer (a stream handler, or _process_message for a reply that is not
\* streamed) puts an item on the queue
Put ==
    /\ put_count < MaxItems
    /\ \E m \in Messages :
        IF m.is_dict
        THEN PutNotice(m.from_wxid, m.chunk_type)
        ELSE PutText(m.from_wxid, m.content)
    /\ UNCHANGED <<stream_vars, sender_vars, xybot_vars, pool_vars, policy_vars, split_vars>>

\* the queue and its consumer, no reply being streamed
Init ==
    /\ message_queue = <<>>
    /\ put_count = 0
    /\ SenderInit
    /\ XYBotIdle
    /\ PoolIdle
    /\ PolicyIdle
    /\ SplitIdle
    /\ stream_pc = "done"
    /\ from_wxid = "wxid_peer"
    /\ stream_split_sentence = TRUE
    /\ content_buffer = <<>>
    /\ reasoning_buffer = <<>>
    /\ reasoning_finished = FALSE
    /\ vocabulary = 1
    /\ chunks_seen = <<>>
    /\ cuts = <<>>

SenderStep ==
    \/ SenderGet
    \/ SenderNoticeSend
    \/ SenderNoticeHist
    \/ SenderChoose
    \/ SenderVoice
    \/ SenderSend
    \/ SenderHist
    \/ SenderSleep
    \/ SenderWake

Next == Put \/ SenderStep

\* the dispatch queue, its producers and its consumer
Spec == Init /\ [][Next]_vars

\* the sender thread runs whenever it can
FairSpec == Spec /\ WF_vars(SenderStep)

\* most items of a burst of replies
MaxBacklog == 5

\* a burst: the producers put texts and finished-script notices faster than
\* the sender sends them
PutBurst ==
    /\ put_count < MaxBacklog
    /\ \/ PutText("wxid_peer", EchoedHello)
       \/ PutNotice("wxid_peer", "script_finished")
    /\ UNCHANGED <<stream_vars, sender_vars, xybot_vars, pool_vars, policy_vars, split_vars>>

BacklogNext == PutBurst \/ SenderStep

\* the dispatch queue and its consumer under a burst of replies
BacklogSpec == Init /\ [][BacklogNext]_vars

\* the producers put replies in which the backend echoes the name tag of the
\* history lines, with text after it or with none, and finished-script notices
PutEchoed ==
    /\ put_count < MaxItems
    /\ \/ PutText("wxid_peer", EchoedHello)
       \/ PutText("wxid_peer", EchoOnly)
       \/ PutNotice("wxid_peer", "script_finished")
    /\ UNCHANGED <<stream_vars, sender_vars, xybot_vars, pool_vars, policy_vars, split_vars>>

EchoNext == PutEchoed \/ SenderStep

\* the dispatch queue and its consumer over replies that echo the name tag
EchoSpec == Init /\ [][EchoNext]_vars

\* the process ends.  The sender is a daemon thread in a loop with no exit
\* (threading.Thread(..., daemon=True), while True): it is stopped where it
\* is, and what it has not got stays on the queue.
Exit ==
    /\ sender_pc # "stopped"
    /\ sender_pc' = "stopped"
    /\ UNCHANGED <<queue_vars, stream_vars, xybot_vars, pool_vars, policy_vars, split_vars, enable_voice, msg, queue_size, content,
                   channel, wait_time, sends, hist, failures, ignored>>

\* a producer puts an item while the process runs
PutRunning == sender_pc # "stopped" /\ Put

ShutdownNext == PutRunning \/ SenderStep \/ Exit

\* the dispatch queue, its producers and its consumer, until the process ends
ShutdownSpec == Init /\ [][ShutdownNext]_vars

\* ------------------------------------------------------------ thread_pool
\* The stream handlers on the thread pool.  A streamed reply is a generator the
\* handler iterates; what the backend has sent and the handler has not taken is
\* pending.  A fragment is a chunk whose content is a dict ("notice"), which the
\* handler puts on the queue as it is; a chunk that is no dict ("broken"), at
\* which the handler raises and puts the apology; or the end of the reply.

\* ThreadPoolExecutor(max_workers=2)
max_workers == 2

\* most fragments the backend sends for all the replies, the ends included
MaxFragments == 2

\* the handlers a worker thread is running
Running == {caller \in Callers : streams[caller].state = "running"}

\* the handler waits in "for chunk in reply" for a fragment that has not come
Stalled(caller) == streams[caller].state = "running" /\ streams[caller].pending = <<>>

\* the reply has ended: the backend sends nothing after the end or a broken chunk
Ended(pending) == pending # <<>> /\ pending[Len(pending)] \in {"end", "broken"}

RECURSIVE SumOver(_, _)
SumOver(counted, callers) ==
    IF callers = {}
    THEN 0
    ELSE LET caller == CHOOSE c \in callers : TRUE
         IN  counted[caller] + SumOver(counted, callers \ {caller})

\* the fragments the backend has sent so far: those put on the queue, those
\* pending, and the ends taken
FragmentsSent ==
    put_count
        + SumOver([caller \in Callers |-> Len(streams[caller].pending)], Callers)
        + Cardinality({caller \in Callers : streams[caller].state = "done"})

\* self.thread_pool.submit(self._run_stream_handler, bot, from_wxid, reply)
Submit(caller) ==
    /\ streams[caller].state = "none"
    /\ streams' = [streams EXCEPT ![caller].state = "queued"]
    /\ work_queue' = Append(work_queue, caller)
    /\ UNCHANGED <<queue_vars, stream_vars, sender_vars, xybot_vars, policy_vars, split_vars>>

\* a worker thread that is free takes the oldest handler submitted
WorkerTake ==
    /\ work_queue # <<>>
    /\ Cardinality(Running) < max_workers
    /\ streams' = [streams EXCEPT ![Head(work_queue)].state = "running"]
    /\ work_queue' = Tail(work_queue)
    /\ UNCHANGED <<queue_vars, stream_vars, sender_vars, xybot_vars, policy_vars, split_vars>>

\* the backend sends the next fragment of a reply
BackendSends(caller) ==
    /\ streams[caller].state \in {"queued", "running"}
    /\ FragmentsSent < MaxFragments
    /\ ~Ended(streams[caller].pending)
    /\ \E fragment \in {"notice", "broken", "end"} :
        streams' = [streams EXCEPT ![caller].pending = Append(@, fragment)]
    /\ UNCHANGED <<work_queue, queue_vars, stream_vars, sender_vars, xybot_vars, policy_vars, split_vars>>

\* _run_stream_handler on its worker: one turn of "for chunk in reply", the
\* code after the loop at the end of the reply, the except clause at a raise
HandleFragment(caller) ==
    /\ streams[caller].state = "running"
    /\ streams[caller].pending # <<>>
    /\ \E fragment \in {Head(streams[caller].pending)} :
        CASE fragment = "notice" ->
                /\ PutNotice(caller, "script_finished")
                /\ streams' = [streams EXCEPT ![caller].pending = Tail(@)]
          [] fragment = "broken" ->
                /\ PutText(caller, OnStreamError(<<>>)[1])
                /\ streams' = [streams EXCEPT ![caller] = [state |-> "failed", pending |-> <<>>]]
          [] fragment = "end" ->
                /\ UNCHANGED queue_vars
                /\ streams' = [streams EXCEPT ![caller] = [state |-> "done", pending |-> <<>>]]
    /\ UNCHANGED <<work_queue, stream_vars, sender_vars, xybot_vars, policy_vars, split_vars>>

\* handlers run as tasks of the sender's own event loop
HandlerOnSenderLoop == "sender_loop"

\* what runs the stream handlers
HandlerOn == "thread_pool"

\* the sender thread runs: it is held up by no stream handler, as none runs
\* on it
SenderFree == HandlerOn = "thread_pool" \/ Running = {}

PoolSender == SenderFree /\ SenderStep

PoolNext ==
    \/ \E caller \in Callers : Submit(caller)
    \/ WorkerTake
    \/ \E caller \in Callers : BackendSends(caller)
    \/ \E caller \in Callers : HandleFragment(caller)
    \/ PoolSender

\* the replies streamed at once, their handlers, the queue and the sender
PoolSpec == Init /\ [][PoolNext]_vars

\* the sender thread and the workers run whenever they can; nothing makes the
\* backend send
PoolFairSpec ==
    /\ PoolSpec
    /\ WF_vars(PoolSender)
    /\ WF_vars(WorkerTake)
    /\ \A caller \in Callers : WF_vars(HandleFragment(caller))

\* ------------------------------------------------------------------ XYBot
\* The normalizer of src/utils/xybot.py.  An id, a content and a MsgSource are
\* texts made of tokens: a token is a word, one of the separators ":", ","
\* "\n", "\t", the group marker "@chatroom" that ends the id of a group, or a
\* whole XML document, named by a key of Documents.

\* most envelopes given to process_message in one run
MaxEnvelopes == 2

\* self.wxid, the bot's own id
self_wxid == <<"wxid_bot">>

Alice == <<"wxid_alice">>
Bob == <<"wxid_bob">>
Room1 == <<"room1", "@chatroom">>

\* str.endswith("@chatroom")
EndsWithChatroom(id) == id # <<>> /\ id[Len(id)] = "@chatroom"

\* the least position at or after from where sep starts in text, 0 if none
FindFrom(text, sep, from) ==
    LET At(i) == i + Len(sep) - 1 <= Len(text) /\ SubSeq(text, i, i + Len(sep) - 1) = sep
    IN  IF \E i \in from..Len(text) : At(i)
        THEN CHOOSE i \in from..Len(text) : At(i) /\ \A j \in from..(i - 1) : ~At(j)
        ELSE 0

\* str.rsplit(sep, 1): the split at the last sep
SplitAtLast(text, sep) ==
    LET At(i) == i + Len(sep) - 1 <= Len(text) /\ SubSeq(text, i, i + Len(sep) - 1) = sep
    IN  IF \E i \in 1..Len(text) : At(i)
        THEN LET at == CHOOSE i \in 1..Len(text) : At(i) /\ \A j \in (i + 1)..Len(text) : ~At(j)
             IN  <<SubSeq(text, 1, at - 1), SubSeq(text, at + Len(sep), Len(text))>>
        ELSE <<text>>

\* str.split(sep, 1): the one or two parts
SplitOnce(text, sep) ==
    LET at == FindFrom(text, sep, 1)
    IN  IF at = 0
        THEN <<text>>
        ELSE <<SubSeq(text, 1, at - 1), SubSeq(text, at + Len(sep), Len(text))>>

\* str.split(sep): all the parts
RECURSIVE SplitAll(_, _)
SplitAll(text, sep) ==
    LET at == FindFrom(text, sep, 1)
    IN  IF at = 0
        THEN <<text>>
        ELSE <<SubSeq(text, 1, at - 1)>>
                \o SplitAll(SubSeq(text, at + Len(sep), Len(text)), sep)

\* str.strip(","): the separators at both ends are taken off
StripCommas(text) ==
    LET keep == {i \in 1..Len(text) : text[i] # ","}
    IN  IF keep = {}
        THEN <<>>
        ELSE SubSeq(text, CHOOSE i \in keep : \A j \in keep : i <= j,
                          CHOOSE i \in keep : \A j \in keep : i >= j)

\* str.replace("\n", "").replace("\t", "")
WithoutBreaks(text) == SelectSeq(text, LAMBDA token : token \notin {"\n", "\t"})

\* a check that wants both the conversation and the sender on the whitelist
ignore_check_both(FromWxid, SenderWxid) ==
    IF ignore_mode = "Whitelist"
    THEN FromWxid \in whitelist /\ SenderWxid \in whitelist
    ELSE IF ignore_mode = "blacklist"
         THEN FromWxid \notin blacklist /\ SenderWxid \notin blacklist
         ELSE TRUE

\* ignore_check(FromWxid, SenderWxid)
ignore_check(FromWxid, SenderWxid) ==
    IF ignore_mode = "Whitelist"
    THEN FromWxid \in whitelist \/ SenderWxid \in whitelist
    ELSE IF ignore_mode = "blacklist"
         THEN FromWxid \notin blacklist /\ SenderWxid \notin blacklist
         ELSE TRUE

\* The XML documents of the envelopes.  An element is a record of what
\* find() and get() can find in it: a field for each child element present,
\* attr_x for an attribute x, a leaf child being its text.
QuoteRefer ==
    [type |-> 1, svrid |-> 7, fromusr |-> self_wxid, chatusr |-> Room1,
     displayname |-> <<"Al">>, msgsource |-> <<"<msgsource>">>, content |-> <<"hi">>,
     createtime |-> <<"1700000000">>]

Documents ==
    ("<msgsource>" :> [signature |-> <<"v1">>])
    @@ ("<msgsource at>" :>
            [atuserlist |-> <<",", "wxid_alice", ",", "wxid_bot", ",">>])
    @@ ("<msgsource at other>" :> [atuserlist |-> <<"wxid_alice">>])
    @@ ("<img>" :> [img |-> [attr_aeskey |-> <<"k">>, attr_cdnmidimgurl |-> <<"u">>]])
    @@ ("<voicemsg>" :> [voicemsg |-> [attr_voiceurl |-> <<"u">>, attr_length |-> 3]])
    @@ ("<quote>" :>
            [appmsg |-> [type |-> 57, title |-> <<"ok">>, refermsg |-> QuoteRefer]])
    @@ ("<quote no refermsg type>" :>
            [appmsg |-> [type |-> 57, title |-> <<"ok">>,
                         refermsg |-> [svrid |-> 7, fromusr |-> self_wxid,
                                       chatusr |-> Room1, displayname |-> <<"Al">>,
                                       msgsource |-> <<"<msgsource>">>,
                                       content |-> <<"hi">>,
                                       createtime |-> <<"1700000000">>]]])
    @@ ("<link>" :>
            [appmsg |-> [type |-> 5, title |-> <<"t">>, des |-> <<"d">>, url |-> <<"u">>,
                         appattach |-> [cdnthumburl |-> <<"c">>]],
             appinfo |-> [version |-> <<"1">>, appname |-> <<"app">>]])
    @@ ("<link no appinfo>" :>
            [appmsg |-> [type |-> 5, title |-> <<"t">>, des |-> <<"d">>, url |-> <<"u">>,
                         appattach |-> [cdnthumburl |-> <<"c">>]]])
    @@ ("<link no appattach>" :>
            [appmsg |-> [type |-> 4, title |-> <<"t">>],
             appinfo |-> [version |-> <<"1">>, appname |-> <<"app">>]])
    @@ ("<file>" :>
            [appmsg |-> [type |-> 6, title |-> <<"f">>,
                         appattach |-> [attachid |-> <<"a">>, fileext |-> <<"txt">>]]])
    @@ ("<file no appattach>" :> [appmsg |-> [type |-> 6, title |-> <<"f">>]])
    @@ ("<file uploading>" :> [appmsg |-> [type |-> 74, title |-> <<"f">>]])
    @@ ("<msg no appmsg>" :> [fromusername |-> Alice])
    @@ ("<pat>" :>
            [attr_type |-> "pat",
             pat |-> [fromusername |-> Alice, pattedusername |-> self_wxid,
                      patsuffix |-> <<"hey">>]])
    @@ ("<pat no patsuffix>" :>
            [attr_type |-> "pat",
             pat |-> [fromusername |-> Alice, pattedusername |-> self_wxid]])
    @@ ("<sysmsg revokemsg>" :> [attr_type |-> "revokemsg"])
    @@ ("<sysmsg ClientCheckGetExtInfo>" :> [attr_type |-> "ClientCheckGetExtInfo"])
    @@ ("<sysmsg no type>" :> [other |-> <<"x">>])

\* a text that is no document at all: what ET.fromstring raises ParseError on
Unparsable == <<"<msg><appmsg">>

\* ET.fromstring(text): the root element, or the ParseError; white space
\* around the document is allowed
Parse(text) ==
    LET document == WithoutBreaks(text)
    IN  IF Len(document) = 1 /\ document[1] \in DOMAIN Documents
        THEN [ok |-> TRUE, root |-> Documents[document[1]]]
        ELSE [ok |-> FALSE, root |-> [other |-> <<>>]]

\* element.find(tag) is not None
Has(element, tag) == tag \in DOMAIN element

\* element.find(t1).find(t2) ... .text is reached with no AttributeError
RECURSIVE Reaches(_, _)
Reaches(element, path) ==
    \/ path = <<>>
    \/ /\ Has(element, Head(path))
       /\ Reaches(element[Head(path)], Tail(path))

\* element.find(tag).text if element.find(tag) is an Element else default
TextOr(element, tag, default) == IF Has(element, tag) THEN element[tag] ELSE default

\* the message dict process_message starts from: FromWxid and ToWxid taken out
\* of the envelope, SenderWxid and IsGroup not set yet
Message(envelope) ==
    [MsgId |-> envelope.MsgId, MsgType |-> envelope.MsgType,
     FromWxid |-> envelope.FromUserName, ToWxid |-> envelope.ToWxid,
     Content |-> envelope.Content, MsgSource |-> envelope.MsgSource,
     ImgBuf |-> envelope.ImgBuf, SenderWxid |-> <<>>, IsGroup |-> FALSE]

\* self.msg_db.save_message(...) with content as saved
Save(message, saved) ==
    [call |-> "save", event |-> "", MsgId |-> message.MsgId,
     SenderWxid |-> message.SenderWxid, FromWxid |-> message.FromWxid,
     MsgType |-> message.MsgType, Content |-> saved, IsGroup |-> message.IsGroup]

\* EventManager.emit(event, self.bot, message)
Emit(event, message) ==
    [call |-> "emit", event |-> event, MsgId |-> message.MsgId,
     SenderWxid |-> message.SenderWxid, FromWxid |-> message.FromWxid,
     MsgType |-> message.MsgType, Content |-> message.Content,
     IsGroup |-> message.IsGroup]

\* an emit that no protection holds back
Unprotected(event, message) == <<Emit(event, message)>>

\* if self.ignore_protection or not protector.check(14400): emit, else a warning
Protected(event, message) ==
    IF ignore_protection \/ ~protection THEN <<Emit(event, message)>> ELSE <<>>

\* if self.ignore_check(...): the protected emit
Gate(event, message) ==
    IF ignore_check(message.FromWxid, message.SenderWxid)
    THEN Protected(event, message)
    ELSE <<>>

\* a handler with no except clause: the decode error leaves process_message
OnDecodeErrorRaises == "raised"

\* how a handler ends when its except clause catches a decode error: it logs
\* and returns
OnDecodeError == "dropped"

\* what a handler leaves: the message dict, the calls it made in order, and how
\* it ended ("done": it ran to its end)
Result(message, made, outcome) == [message |-> message, calls |-> made, outcome |-> outcome]

\* the resolution of conversation and sender every handler begins with, sep
\* being ":\n" for a text and ":" for the other kinds
SplitSender(message, sep) ==
    IF EndsWithChatroom(message.FromWxid)
    THEN LET split_content == SplitOnce(message.Content, sep)
         IN  IF Len(split_content) > 1
             THEN [message EXCEPT !.IsGroup = TRUE, !.Content = split_content[2],
                                  !.SenderWxid = split_content[1]]
             ELSE [message EXCEPT !.IsGroup = TRUE, !.Content = split_content[1],
                                  !.SenderWxid = self_wxid]
    ELSE [message EXCEPT !.SenderWxid = message.FromWxid,
                         !.FromWxid = IF message.FromWxid = self_wxid
                                      THEN message.ToWxid
                                      ELSE message.FromWxid,
                         !.IsGroup = FALSE]

\* ats: atuserlist.strip(",").split(","), [] when there is none
AtList(root) ==
    LET ats == TextOr(root, "atuserlist", <<>>)
    IN  IF ats # <<>> THEN SplitAll(StripCommas(ats), <<",">>) ELSE <<>>

\* a handler that does not return after the at_message
process_text_message_both(message) ==
    LET resolved == SplitSender(message, <<":", "\n">>)
        source == Parse(resolved.MsgSource)
        ats == AtList(source.root)
        at_ed == IF \E i \in DOMAIN ats : ats[i] = self_wxid
                 THEN Gate("at_message", resolved)
                 ELSE <<>>
    IN  IF ~source.ok
        THEN Result(resolved, <<>>, OnDecodeError)
        ELSE Result(resolved,
                    <<Save(resolved, resolved.Content)>> \o at_ed
                        \o Gate("text_message", resolved),
                    "done")

process_text_message(message) ==
    LET resolved == SplitSender(message, <<":", "\n">>)
        source == Parse(resolved.MsgSource)
        ats == AtList(source.root)
        event == IF \E i \in DOMAIN ats : ats[i] = self_wxid
                 THEN "at_message"
                 ELSE "text_message"
    IN  IF ~source.ok
        THEN Result(resolved, <<>>, OnDecodeError)
        ELSE Result(resolved,
                    <<Save(resolved, resolved.Content)>> \o Gate(event, resolved),
                    "done")

\* The downloads of the handlers (bot.download_image, download_voice,
\* download_video, download_attach, silk_base64_to_wav_byte) are taken to
\* return.

process_image_message(message) ==
    LET resolved ==
            SplitSender([message EXCEPT !.Content = WithoutBreaks(message.Content)], <<":">>)
        saved == <<Save(resolved, resolved.MsgSource)>>
        parsed == Parse(resolved.Content)
        downloaded ==
            IF /\ Has(parsed.root, "img")
               /\ Has(parsed.root.img, "attr_aeskey")
               /\ Has(parsed.root.img, "attr_cdnmidimgurl")
            THEN [resolved EXCEPT !.Content = <<"image">>]
            ELSE resolved
    IN  IF ~parsed.ok
        THEN Result(resolved, saved, OnDecodeError)
        ELSE Result(downloaded, saved \o Gate("image_message", downloaded), "done")

process_voice_message(message) ==
    LET resolved ==
            SplitSender([message EXCEPT !.Content = WithoutBreaks(message.Content)], <<":">>)
        saved == <<Save(resolved, resolved.Content)>>
        parsed == Parse(resolved.Content)
        downloaded ==
            IF /\ Has(parsed.root, "voicemsg")
               /\ Has(parsed.root.voicemsg, "attr_voiceurl")
               /\ parsed.root.voicemsg.attr_length # 0
            THEN [resolved EXCEPT !.Content = <<"wav">>]
            ELSE resolved
    IN  IF resolved.IsGroup \/ ~resolved.ImgBuf
        THEN IF ~parsed.ok \/ (Has(parsed.root, "voicemsg")
                                /\ ~Has(parsed.root.voicemsg, "attr_length"))
             THEN Result(resolved, saved, OnDecodeError)
             ELSE Result(downloaded, saved \o Gate("voice_message", downloaded), "done")
        ELSE LET converted == [resolved EXCEPT !.Content = <<"wav">>]
             IN  Result(converted, saved \o Gate("voice_message", converted), "done")

process_video_message(message) ==
    LET resolved == SplitSender(message, <<":">>)
    IN  Result(resolved,
               <<Save(resolved, resolved.Content)>> \o Gate("video_message", resolved),
               "done")

\* the children of refermsg that process_quote_message reads with .text
ReferFields ==
    {"type", "svrid", "fromusr", "chatusr", "displayname", "msgsource", "content",
     "createtime"}

process_quote_message(message) ==
    LET root == Parse(message.Content).root
        decodes ==
            /\ Reaches(root, <<"appmsg", "title">>)
            /\ Has(root.appmsg, "refermsg")
            /\ \A field \in ReferFields : Has(root.appmsg.refermsg, field)
            /\ root.appmsg.refermsg.type = 3 =>
                    Parse(root.appmsg.refermsg.content).ok
            /\ root.appmsg.refermsg.type = 49 =>
                    /\ Parse(root.appmsg.refermsg.content).ok
                    /\ Has(Parse(root.appmsg.refermsg.content).root, "appmsg")
        quoted == [message EXCEPT !.Content = root.appmsg.title]
    IN  IF ~decodes
        THEN Result(message, <<>>, OnDecodeError)
        ELSE Result(quoted, Gate("quote_message", quoted), "done")

\* title, des and url default to "", the thumbnail to {}; app_version and
\* app_name are bound only when appinfo is there, and reading them unbound
\* raises
process_link_message(message) ==
    LET root == Parse(message.Content).root
        linked ==
            [message EXCEPT !.Content =
                <<"title">> \o TextOr(root.appmsg, "title", <<>>)
                    \o <<"\n", "des">> \o TextOr(root.appmsg, "des", <<>>)
                    \o <<"\n", "url">> \o TextOr(root.appmsg, "url", <<>>)]
    IN  IF ~Has(root, "appmsg")
        THEN Result(message, <<>>, "done")
        ELSE IF ~Has(root, "appinfo")
             THEN Result(message, <<>>, OnDecodeError)
             ELSE Result(linked, Gate("link_message", linked), "done")

process_file_message(message) ==
    LET root == Parse(message.Content).root
        decodes ==
            /\ Reaches(root, <<"appmsg", "title">>)
            /\ Reaches(root, <<"appmsg", "appattach", "attachid">>)
            /\ Reaches(root, <<"appmsg", "appattach", "fileext">>)
    IN  IF ~decodes
        THEN Result(message, <<>>, OnDecodeError)
        ELSE Result(message,
                    <<Save(message, message.Content)>> \o Gate("file_message", message),
                    "done")

\* what a handler that runs after another leaves: the calls of both in order
Then(made, result) == [result EXCEPT !.calls = made \o result.calls]

process_xml_message(message) ==
    LET resolved ==
            SplitSender([message EXCEPT !.Content = WithoutBreaks(message.Content)], <<":">>)
        saved == <<Save(resolved, resolved.Content)>>
        parsed == Parse(resolved.Content)
        type == parsed.root.appmsg.type
    IN  IF ~parsed.ok \/ ~Reaches(parsed.root, <<"appmsg", "type">>)
        THEN Result(resolved, saved, OnDecodeError)
        ELSE IF type = 57 THEN Then(saved, process_quote_message(resolved))
        ELSE IF type \in {4, 5} THEN Then(saved, process_link_message(resolved))
        ELSE IF type = 6 THEN Then(saved, process_file_message(resolved))
        ELSE Result(resolved, saved, "done")

process_pat_message(message) ==
    LET root == Parse(message.Content).root
        decodes ==
            /\ Reaches(root, <<"pat", "fromusername">>)
            /\ Reaches(root, <<"pat", "pattedusername">>)
            /\ Reaches(root, <<"pat", "patsuffix">>)
        patted ==
            root.pat.fromusername \o <<"pats">> \o root.pat.pattedusername
                \o root.pat.patsuffix
    IN  IF ~decodes
        THEN Result(message, <<>>, OnDecodeError)
        ELSE Result(message, <<Save(message, patted)>> \o Gate("pat_message", message),
                    "done")

process_system_message(message) ==
    LET resolved == SplitSender(message, <<":">>)
        parsed == Parse(resolved.Content)
        msg_type == parsed.root.attr_type
    IN  IF ~parsed.ok \/ ~Has(parsed.root, "attr_type")
        THEN Result(resolved, <<>>, OnDecodeError)
        ELSE IF msg_type = "pat" THEN process_pat_message(resolved)
        ELSE IF msg_type = "ClientCheckGetExtInfo" THEN Result(resolved, <<>>, "done")
        ELSE Result(resolved, Gate("system_message", resolved), "done")

\* a message the bot itself sent to a group comes with From and To the other
\* way round
OwnToGroup(message) ==
    IF message.FromWxid = self_wxid /\ EndsWithChatroom(message.ToWxid)
    THEN [message EXCEPT !.FromWxid = message.ToWxid, !.ToWxid = message.FromWxid]
    ELSE message

\* a dispatch that raises at a type it has no branch for
process_message_strict(envelope) ==
    LET message == OwnToGroup(Message(envelope))
        msg_type == envelope.MsgType
    IN  IF msg_type = 1 THEN process_text_message(message)
        ELSE IF msg_type = 3 THEN process_image_message(message)
        ELSE IF msg_type = 34 THEN process_voice_message(message)
        ELSE IF msg_type = 43 THEN process_video_message(message)
        ELSE IF msg_type = 49 THEN process_xml_message(message)
        ELSE IF msg_type = 10002 THEN process_system_message(message)
        ELSE IF msg_type = 37
             THEN Result(message, Protected("friend_request", message), "done")
        ELSE IF msg_type = 51 THEN Result(message, <<>>, "done")
        ELSE Result(message, <<>>, "raised")

process_message(envelope) ==
    LET message == OwnToGroup(Message(envelope))
        msg_type == envelope.MsgType
    IN  IF msg_type = 1 THEN process_text_message(message)
        ELSE IF msg_type = 3 THEN process_image_message(message)
        ELSE IF msg_type = 34 THEN process_voice_message(message)
        ELSE IF msg_type = 43 THEN process_video_message(message)
        ELSE IF msg_type = 49 THEN process_xml_message(message)
        ELSE IF msg_type = 10002 THEN process_system_message(message)
        ELSE IF msg_type = 37
             THEN Result(message, Protected("friend_request", message), "done")
        ELSE Result(message, <<>>, "done")

\* an envelope as the transport hands it over, MsgId left to the arrival
Envelope(type, sender, receiver, text, source) ==
    [MsgId |-> 0, MsgType |-> type, FromUserName |-> sender, ToWxid |-> receiver,
     Content |-> text, MsgSource |-> source, ImgBuf |-> FALSE]

\* text of sender said in a group: the sender's id, ":\n", and the text
Said(sender, text) == sender \o <<":", "\n">> \o text

PlainSource == <<"<msgsource>">>

\* the envelopes the transport hands over
Envelopes ==
    {\* texts: in a group, with the bot at-ed, by the bot itself to a group with and
     \* without ":\n" in what it says, in private from a peer and to a peer
     Envelope(1, Room1, self_wxid, Said(Alice, <<"hi">>), PlainSource),
     Envelope(1, Room1, self_wxid, Said(Bob, <<"hi">>), <<"<msgsource at>">>),
     Envelope(1, Room1, self_wxid, Said(Bob, <<"a", ":", "\n", "b">>),
              <<"<msgsource at other>">>),
     Envelope(1, self_wxid, Room1, <<"hi">>, PlainSource),
     Envelope(1, self_wxid, Room1, <<"Note", ":", "\n", "hi">>, PlainSource),
     Envelope(1, Bob, self_wxid, <<"hi", ":", "\n", "there">>, PlainSource),
     Envelope(1, self_wxid, Bob, <<"hi">>, PlainSource),
     Envelope(1, Room1, self_wxid, Said(Alice, <<"hi">>), Unparsable),
     \* image, voice, video
     Envelope(3, Room1, self_wxid, Said(Bob, <<"<img>">>), PlainSource),
     Envelope(3, Alice, self_wxid, Unparsable, PlainSource),
     Envelope(34, Bob, self_wxid, <<"<voicemsg>">>, PlainSource),
     [Envelope(34, Bob, self_wxid, <<"<voicemsg>">>, PlainSource) EXCEPT !.ImgBuf = TRUE],
     Envelope(34, Alice, self_wxid, Unparsable, PlainSource),
     Envelope(43, Room1, self_wxid, Said(Alice, <<"<videomsg>">>), PlainSource),
     \* XML messages: quote, link, file, with and without an optional child
     Envelope(49, Room1, self_wxid, Said(Bob, <<"<quote>">>), PlainSource),
     Envelope(49, Bob, self_wxid, <<"<quote no refermsg type>">>, PlainSource),
     Envelope(49, Bob, self_wxid, <<"<link>">>, PlainSource),
     Envelope(49, Bob, self_wxid, <<"<link no appinfo>">>, PlainSource),
     Envelope(49, Bob, self_wxid, <<"<link no appattach>">>, PlainSource),
     Envelope(49, Room1, self_wxid, Said(Bob, <<"<file>">>), PlainSource),
     Envelope(49, Bob, self_wxid, <<"<file no appattach>">>, PlainSource),
     Envelope(49, Bob, self_wxid, <<"<file uploading>">>, PlainSource),
     Envelope(49, Bob, self_wxid, <<"<msg no appmsg>">>, PlainSource),
     Envelope(49, Bob, self_wxid, Unparsable, PlainSource),
     \* system messages
     Envelope(10002, Room1, self_wxid, Said(Bob, <<"<pat>">>), PlainSource),
     Envelope(10002, Bob, self_wxid, <<"<pat no patsuffix>">>, PlainSource),
     Envelope(10002, Bob, self_wxid, <<"<sysmsg revokemsg>">>, PlainSource),
     Envelope(10002, Bob, self_wxid, <<"<sysmsg ClientCheckGetExtInfo>">>, PlainSource),
     Envelope(10002, Bob, self_wxid, <<"<sysmsg no type>">>, PlainSource),
     Envelope(10002, Bob, self_wxid, Unparsable, PlainSource),
     \* a friend request, a status notice, an unknown type
     Envelope(37, Bob, self_wxid, <<"<msg no appmsg>">>, PlainSource),
     Envelope(51, Bob, self_wxid, <<"<msg no appmsg>">>, PlainSource),
     Envelope(9999, Bob, self_wxid, <<"hi">>, PlainSource)}

\* the transport hands an envelope to process_message
Receive ==
    /\ Len(arrived) < MaxEnvelopes
    /\ \E envelope \in Envelopes :
        LET numbered == [envelope EXCEPT !.MsgId = Len(arrived) + 1]
            result == process_message(numbered)
        IN  /\ arrived' = Append(arrived, numbered)
            /\ messages' = Append(messages, [message |-> result.message,
                                             outcome |-> result.outcome,
                                             protection |-> protection])
            /\ calls' = calls \o result.calls
    /\ UNCHANGED <<ignore_mode, whitelist, blacklist, ignore_protection, protection,
                   queue_vars, stream_vars, sender_vars, pool_vars, policy_vars, split_vars>>

\* the four hours after a login on a new device are over
ProtectionEnds ==
    /\ protection
    /\ protection' = FALSE
    /\ UNCHANGED <<ignore_mode, whitelist, blacklist, ignore_protection, arrived, messages,
                   calls, queue_vars, stream_vars, sender_vars, pool_vars, policy_vars, split_vars>>

\* XYBot with main_config.toml read, after update_profile, no envelope received
XYBotInit ==
    /\ ignore_mode \in {"Whitelist", "blacklist", "None"}
    /\ whitelist = {Bob}
    /\ blacklist = {Alice}
    /\ ignore_protection \in BOOLEAN
    /\ protection \in BOOLEAN
    /\ arrived = <<>>
    /\ messages = <<>>
    /\ calls = <<>>
    /\ PoolIdle
    /\ PolicyIdle
    /\ SplitIdle
    /\ message_queue = <<>>
    /\ put_count = 0
    /\ SenderInit
    /\ enable_voice = FALSE
    /\ stream_pc = "done"
    /\ from_wxid = "wxid_peer"
    /\ stream_split_sentence = TRUE
    /\ content_buffer = <<>>
    /\ reasoning_buffer = <<>>
    /\ reasoning_finished = FALSE
    /\ vocabulary = 1
    /\ chunks_seen = <<>>
    /\ cuts = <<>>

XYBotNext == Receive \/ ProtectionEnds

\* the normalizer and the envelopes it is given
XYBotSpec == XYBotInit /\ [][XYBotNext]_vars

\* ------------------------------------------------ claims on the segmenter

\* what the queue holds of a reply, in put order: the texts, and the notices
QueueTexts == SelectSeq(message_queue, LAMBDA item : ~item.is_dict)

\* the text the loop added to the buffer over the chunks given
RECURSIVE Accumulated(_)
Accumulated(chunks) ==
    IF chunks = <<>>
    THEN <<>>
    ELSE LET last == chunks[Len(chunks)]
         IN  Accumulated(Take(chunks, Len(chunks) - 1))
                \o (IF last.content_is_dict THEN <<>> ELSE Buffered(<<>>, last))

IsPrefix(a, b) == Len(a) <= Len(b) /\ Take(b, Len(a)) = a

\* full is the segments in order, with nothing but whitespace before, between
\* and after them
RECURSIVE TrimmedInto(_, _)
TrimmedInto(full, segments) ==
    IF segments = <<>>
    THEN ~HasNonWs(full)
    ELSE \E k \in 0..Len(full) :
            /\ ~HasNonWs(Take(full, k))
            /\ IsPrefix(segments[1].content, Drop(full, k))
            /\ TrimmedInto(Drop(full, k + Len(segments[1].content)), Tail(segments))

\* C3: when a reply has ended, the segments put on the queue, in order, make up
\* the accumulated text with nothing but whitespace at the cuts left out.
C3_RoundTrip ==
    stream_pc = "done" => TrimmedInto(Accumulated(chunks_seen), QueueTexts)

\* C4: no mid-stream cut is made in a buffer that holds an odd number of
\* code-fence markers.
C4_NoCutInOddFence ==
    \A i \in DOMAIN cuts : CountFence(cuts[i].buffer, 0) % 2 = 0

\* the quotation marks that open without also closing
OpeningMarks == {c \in DOMAIN paired_symbols : paired_symbols[c] # c}

\* how many of text[from..to] are the character c
CountChar(text, from, to, c) == Cardinality({i \in from..to : text[i] = c})

\* some quotation opened in text[:pos] is not closed in it: from some opening
\* mark on there are more opening than closing marks, or a mark that is its own
\* closing mark occurs an odd number of times
OpenQuoteAt(text, pos) ==
    \/ \E i \in 1..pos :
        /\ text[i] \in OpeningMarks
        /\ CountChar(text, i, pos, text[i]) > CountChar(text, i, pos, paired_symbols[text[i]])
    \/ \E c \in DOMAIN paired_symbols \ OpeningMarks : CountChar(text, 1, pos, c) % 2 = 1

\* C5: no mid-stream cut is made at a position inside an open quotation of the
\* buffer, however far back the quotation opens.
C5_NoCutInOpenQuote ==
    \A i \in DOMAIN cuts : ~OpenQuoteAt(cuts[i].buffer, cuts[i].pos)

\* the cut at pos ends the segment with the point of a decimal number
AtDecimalPoint(text, pos) ==
    /\ pos >= 2 /\ pos < Len(text)
    /\ text[pos] = "."
    /\ text[pos - 1] \in Digits
    /\ text[pos + 1] \in Digits

\* C6: no mid-stream cut is made at a period that has a digit before it and a
\* digit after it.
C6_NoCutAtDecimalPoint ==
    \A i \in DOMAIN cuts : ~AtDecimalPoint(cuts[i].buffer, cuts[i].pos)

\* how many characters of the texts are no whitespace
RECURSIVE NonWsCount(_)
NonWsCount(texts) ==
    IF texts = <<>>
    THEN 0
    ELSE Cardinality({i \in DOMAIN texts[1] : texts[1][i] \notin WhiteSpace})
            + NonWsCount(Tail(texts))

\* the position in items of the k-th one that is a notice
NoticeIndex(items, IsNotice(_), k) ==
    CHOOSE i \in DOMAIN items :
        /\ IsNotice(items[i])
        /\ Cardinality({j \in 1..i : IsNotice(items[j])}) = k

\* C7: a notice is put on the queue after all the text that came before it in
\* the stream: with sentence splitting switched on, the text put before the
\* k-th notice is the text streamed before the k-th notice chunk, whitespace
\* aside.
C7_NoticeInStreamOrder ==
    stream_split_sentence =>
    LET IsNoticeItem(item) == item.is_dict
        IsNoticeChunk(chunk) == chunk.content_is_dict
        notices == Cardinality({i \in DOMAIN message_queue : message_queue[i].is_dict})
    IN  \A k \in 1..notices :
            LET q == NoticeIndex(message_queue, IsNoticeItem, k)
                c == NoticeIndex(chunks_seen, IsNoticeChunk, k)
                before == SelectSeq(Take(message_queue, q - 1), LAMBDA item : ~item.is_dict)
            IN  NonWsCount([i \in DOMAIN before |-> before[i].content])
                    = NonWsCount(<<Accumulated(Take(chunks_seen, c - 1))>>)

\* C8: when the reply ends, the buffer left is put on the queue as one item,
\* whole, if it holds any character that is no whitespace, and nothing is put
\* otherwise.
C8_FinalFlush ==
    [][stream_pc = "iter" /\ stream_pc' = "done" =>
        message_queue' =
            IF HasNonWs(content_buffer)
            THEN Append(message_queue, Item(put_count + 1, from_wxid, FALSE, content_buffer, ""))
            ELSE message_queue]_vars

\* a reply has ended on a buffer that is short, holds no terminator and opens a
\* code fence it never closes, and the buffer is the last item of the queue
C8_Witness ==
    /\ stream_pc = "done"
    /\ message_queue # <<>>
    /\ message_queue[Len(message_queue)].content = content_buffer
    /\ Len(content_buffer) < min_split_length
    /\ CountFence(content_buffer, 0) % 2 = 1
    /\ \A i \in DOMAIN content_buffer : content_buffer[i] \notin Terminators

\* C9: when a reply is given up on an error with text in the buffer, the buffer
\* is among the last items put on the queue (stated with sentence splitting
\* switched on).
C9_FlushOnError ==
    stream_split_sentence /\ stream_pc = "failed" /\ HasNonWs(content_buffer) =>
        \E i \in DOMAIN message_queue :
            /\ i >= Len(message_queue) - 1
            /\ message_queue[i].content \in {content_buffer, Strip(content_buffer)}

\* -------------------------------------------- claims on the dispatch queue

\* C1: the calls of bot.send_*_message are made in the order the items were
\* put: of two calls the earlier is for the item put earlier, so the items of
\* one conversation are sent in the order they were put.
C1_SendsInPutOrder ==
    \A i, j \in DOMAIN sends : i < j => sends[i].seq < sends[j].seq

\* three items put for one conversation have all been sent, in put order
C1_Witness ==
    \E i, j, k \in DOMAIN sends :
        /\ i < j /\ j < k
        /\ sends[i].from_wxid = sends[j].from_wxid
        /\ sends[j].from_wxid = sends[k].from_wxid

\* the sender is done with item n: it has got it and has gone round the loop
Handled(n) ==
    /\ \A i \in DOMAIN message_queue : message_queue[i].seq # n
    /\ put_count >= n
    /\ msg.seq # n \/ sender_pc = "get"

\* C2: an exception on one item does not stop the sender: every item put on
\* the queue, before or after an item that failed, is got and gone through.
C2_SenderGoesOn ==
    \A n \in 1..MaxItems : (put_count >= n) ~> Handled(n)

\* an item failed, and an item put after it has been sent
C2_Witness ==
    \E f \in DOMAIN failures, i \in DOMAIN sends :
        sends[i].seq > failures[f].seq /\ sends[i].ok

\* C10: no item is let go of in silence: for every item the sender is done
\* with, bot.send_*_message was called or an exception was logged.
C10_NoSilentDrop ==
    \A n \in 1..put_count :
        Handled(n) =>
            \/ \E i \in DOMAIN sends : sends[i].seq = n
            \/ \E f \in DOMAIN failures : failures[f].seq = n

\* ------------------------------------------------- claims on the normalizer

\* a ":\n" starts at position k of text
SeparatorAt(text, k) == k < Len(text) /\ text[k] = ":" /\ text[k + 1] = "\n"

Normalized == {1, 3, 34, 43, 49, 10002}

\* C12: an envelope the bot itself wrote is normalized with the bot as sender,
\* and with the group, or the private peer, it was written to as conversation,
\* whatever its text holds.
C12_OwnMessages ==
    \A i \in DOMAIN arrived :
        arrived[i].FromUserName = self_wxid /\ arrived[i].MsgType \in Normalized =>
            /\ messages[i].message.SenderWxid = self_wxid
            /\ messages[i].message.FromWxid = arrived[i].ToWxid

\* the calls of save_message for the i-th envelope
SavesOf(i) == {k \in DOMAIN calls : calls[k].call = "save" /\ calls[k].MsgId = i}

\* C13: one envelope is saved to the message log once: never twice, and once
\* when its handler ran to its end.
C13_SavedOnce ==
    \A i \in DOMAIN arrived :
        /\ Cardinality(SavesOf(i)) <= 1
        /\ messages[i].outcome = "done" /\ arrived[i].MsgType \in {1, 3, 34, 43, 49} =>
                Cardinality(SavesOf(i)) = 1

\* C14: every event emitted to the handlers comes after the save of the same
\* message.
C14_SavedBeforeEmit ==
    \A k \in DOMAIN calls :
        calls[k].call = "emit" =>
            \E j \in 1..(k - 1) : calls[j].call = "save" /\ calls[j].MsgId = calls[k].MsgId

\* the markup of an envelope: the document its content ends with
Markup(envelope) == Parse(<<envelope.Content[Len(envelope.Content)]>>)

\* the envelope holds a quote, a link or a file message, or a pat
ForDecoder(envelope) ==
    LET root == Markup(envelope).root
    IN  \/ /\ envelope.MsgType = 49
           /\ Reaches(root, <<"appmsg", "type">>)
           /\ root.appmsg.type \in {57, 4, 5, 6}
        \/ /\ envelope.MsgType = 10002
           /\ Has(root, "attr_type")
           /\ root.attr_type = "pat"

\* C15: a quote, link, file or pat message whose markup parses is decoded,
\* whatever child elements it lacks: its handler runs to its end.
C15_MissingChildDefaults ==
    \A i \in DOMAIN arrived :
        Markup(arrived[i]).ok /\ ForDecoder(arrived[i]) => messages[i].outcome = "done"

\* the markup the handler of the envelope parses cannot be parsed: the
\* MsgSource of a text; the content of an image, of a voice message that
\* carries no buffer, of an XML or of a system message
Malformed(envelope) ==
    IF envelope.MsgType = 1
    THEN ~Parse(envelope.MsgSource).ok
    ELSE IF envelope.MsgType = 34
         THEN ~envelope.ImgBuf /\ ~Markup(envelope).ok
         ELSE envelope.MsgType \in {3, 49, 10002} /\ ~Markup(envelope).ok

\* the calls made for the i-th envelope, in order
CallsOf(i) == SelectSeq(calls, LAMBDA made : made.MsgId = i)

\* C16: malformed markup fails its own envelope only: the handler logs and
\* returns, no event is emitted for the envelope, and an envelope that comes
\* after it is handled as it is handled on its own.  (The calls of an envelope
\* are compared with those process_message makes for it now, which are those
\* it made then when protector.check has not changed its answer since.)
C16_MalformedFailsAlone ==
    \A i \in DOMAIN arrived :
        Malformed(arrived[i]) =>
            /\ messages[i].outcome = "dropped"
            /\ \A k \in DOMAIN calls : calls[k].MsgId = i => calls[k].call # "emit"
            /\ \A j \in (i + 1)..Len(arrived) :
                /\ messages[j].outcome \in {"done", "dropped"}
                /\ messages[j].protection = protection =>
                        /\ CallsOf(j) = process_message(arrived[j]).calls
                        /\ messages[j].message = process_message(arrived[j]).message

\* a malformed envelope was received, and after it a well-formed one that was
\* saved and emitted
C16_Witness ==
    \E i \in DOMAIN arrived, j \in DOMAIN arrived :
        /\ i < j
        /\ Malformed(arrived[i])
        /\ ~Malformed(arrived[j])
        /\ \E k \in DOMAIN calls : calls[k].MsgId = j /\ calls[k].call = "emit"

\* the ids a conversation or a sender can have
Wxids == {self_wxid, Alice, Bob, Room1, <<"Note">>}

\* C17: ignore_check is a function of its arguments and the lists: under
\* "Whitelist" it accepts when the conversation or the sender is in the
\* whitelist, under "blacklist" when neither is in the blacklist, under any
\* other mode always; and no step changes the mode or the lists.
C17_IgnoreCheckPure ==
    [][/\ \A conversation \in Wxids, sender \in Wxids :
            ignore_check(conversation, sender) =
                CASE ignore_mode = "Whitelist" ->
                        {conversation, sender} \cap whitelist # {}
                  [] ignore_mode = "blacklist" ->
                        {conversation, sender} \cap blacklist = {}
                  [] OTHER -> TRUE
       /\ <<ignore_mode, whitelist, blacklist>>' = <<ignore_mode, whitelist, blacklist>>
      ]_vars

\* under "Whitelist" an event was emitted for a sender on the list in a group
\* that is not, and an envelope of a sender not on it was saved and not emitted
C17_Witness ==
    /\ ignore_mode = "Whitelist"
    /\ \E k \in DOMAIN calls :
        /\ calls[k].call = "emit"
        /\ calls[k].SenderWxid \in whitelist
        /\ calls[k].FromWxid \notin whitelist
    /\ \E i \in DOMAIN arrived :
        /\ messages[i].message.SenderWxid \notin whitelist
        /\ messages[i].message.FromWxid \notin whitelist
        /\ arrived[i].MsgType = 1
        /\ \E k \in DOMAIN calls : calls[k].MsgId = i /\ calls[k].call = "save"
        /\ \A k \in DOMAIN calls : calls[k].MsgId = i => calls[k].call = "save"

\* the envelopes are one envelope but for the MsgId
SameEnvelope(a, b) == [a EXCEPT !.MsgId = 0] = [b EXCEPT !.MsgId = 0]

\* the calls of save_message for the i-th envelope, the MsgId left out
SavedFor(i) ==
    LET saved == SelectSeq(calls, LAMBDA made : made.MsgId = i /\ made.call = "save")
    IN  [k \in DOMAIN saved |-> [saved[k] EXCEPT !.MsgId = 0]]

\* C18: in the protection window, when it is not overridden, no event is
\* emitted for an envelope; and what is normalized and saved for an envelope
\* is the same in the window and out of it.
C18_ProtectionOnlyMutes ==
    /\ \A i \in DOMAIN arrived :
        messages[i].protection /\ ~ignore_protection =>
            \A k \in DOMAIN calls : calls[k].MsgId = i => calls[k].call # "emit"
    /\ \A i \in DOMAIN arrived, j \in DOMAIN arrived :
        SameEnvelope(arrived[i], arrived[j]) =>
            /\ SavedFor(i) = SavedFor(j)
            /\ [messages[i].message EXCEPT !.MsgId = 0]
                    = [messages[j].message EXCEPT !.MsgId = 0]

\* one envelope was received in the window and again after it: saved both
\* times, emitted the second time only
C18_Witness ==
    \E i \in DOMAIN arrived, j \in DOMAIN arrived :
        /\ SameEnvelope(arrived[i], arrived[j])
        /\ messages[i].protection
        /\ ~messages[j].protection
        /\ ~ignore_protection
        /\ SavedFor(i) # <<>>
        /\ \E k \in DOMAIN calls : calls[k].MsgId = j /\ calls[k].call = "emit"

---------------------------------------------------------------------------
\* claims on the sender and the history

\* the seqs append_msg2hist returned for
InHist == {hist[k] : k \in DOMAIN hist}

\* the transport has sent the item: a send of it as a text or a voice returned
SentOk(seq) ==
    \E k \in DOMAIN sends :
        sends[k].seq = seq /\ sends[k].ok /\ sends[k].channel \in {"text", "voice"}

C20_VoiceFailureSendsText ==
    sender_pc = "get" =>
        \A k \in DOMAIN failures :
            failures[k].step = "voice" =>
                \E j \in DOMAIN sends :
                    sends[j].seq = failures[k].seq /\ sends[j].channel = "text"

\* the longest bracket-stripped content the probability is looked at for
MaxLength == 40

\* the item got is a text whose bracket-stripped content has this length
StrippedLength == Len(StripBrackets(content, 0))

\* the sends of the items that are texts
TextSends == SelectSeq(sends, LAMBDA sent : sent.channel # "link")

\* C21: the voice probability, in units of 1 / (5 * max_voice_length), lies
\* between 0.2 and 0.6 and does not grow with the length; a content shorter
\* than 4 once the brackets are stripped is never sent as a voice, whatever
\* the draw; and with enable_voice off every text is sent as a text.
C21_VoiceSelection ==
    /\ \A length \in 0..MaxLength :
        /\ VoiceProbability(length) >= max_voice_length
        /\ VoiceProbability(length) <= 3 * max_voice_length
        /\ length > 0 => VoiceProbability(length) <= VoiceProbability(length - 1)
    /\ \A length \in 0..(min_voice_length - 1), r \in 0..(RandomGrid - 1) :
        ~VoiceChosen(length, r)
    /\ sender_pc \in {"voice", "send", "hist"} /\ channel = "voice" =>
            enable_voice /\ StrippedLength >= min_voice_length
    /\ sends # <<>> /\ sends[Len(sends)].channel = "voice" /\ sender_pc = "hist" =>
            StrippedLength >= min_voice_length
    /\ ~enable_voice => \A k \in DOMAIN TextSends : TextSends[k].channel = "text"

\* with voice enabled one text was sent as a voice and a text shorter than 4
\* was sent as a text
C21_Witness ==
    /\ enable_voice
    /\ \E k \in DOMAIN sends : sends[k].channel = "voice" /\ sends[k].ok
    /\ sender_pc = "hist"
    /\ StrippedLength < min_voice_length
    /\ sends[Len(sends)].channel = "text"

\* the pause, in units of auto_send_interval / (10 * RandomGrid): the interval
Interval == 10 * RandomGrid

\* C22: the pause after a text is sent is the interval times a jitter between
\* 0.8 and 1.2 when the qsize() read at the get is at most 3, and half the
\* interval when it is more; so a pause under backlog is never longer than a
\* pause without.
C22_PacedDelay ==
    /\ sender_pc = "sleeping" =>
        IF queue_size > backlog_threshold
        THEN 10 * wait_time = 5 * Interval
        ELSE 10 * wait_time >= 8 * Interval /\ 10 * wait_time <= 12 * Interval
    /\ \A many \in (backlog_threshold + 1)..MaxBacklog, few \in 0..backlog_threshold,
          r \in 0..(RandomGrid - 1), q \in 0..(RandomGrid - 1) :
            WaitTime(many, r) <= WaitTime(few, q)

\* a text is sent and the sender pauses half the interval, more than 3 items
\* being left on the queue when it was got
C22_Witness ==
    /\ sender_pc = "sleeping"
    /\ queue_size > backlog_threshold
    /\ 10 * wait_time = 5 * Interval
    /\ sends[Len(sends)].seq = msg.seq
    /\ sends[Len(sends)].channel \in {"text", "voice"}

\* the sender is done with the item: it sent it, let it go, or logged an
\* exception for it
Delivered(seq) ==
    \/ \E k \in DOMAIN sends : sends[k].seq = seq
    \/ \E k \in DOMAIN ignored : ignored[k] = seq
    \/ \E k \in DOMAIN failures : failures[k].seq = seq

\* C23: when the sender has stopped, the queue has been drained: nothing is
\* left on it and every item ever put has been taken and delivered.
C23_DrainedAtStop ==
    sender_pc = "stopped" =>
        /\ message_queue = <<>>
        /\ \A seq \in 1..put_count : Delivered(seq)

\* the sender has finished with the item: it let it go, logged an exception
\* for it, or sent it and called append_msg2hist for it
Finished(seq) ==
    \/ \E k \in DOMAIN ignored : ignored[k] = seq
    \/ \E k \in DOMAIN failures : failures[k].seq = seq
    \/ seq \in InHist

\* C24: the one sender has one item in hand: every item got before the one in
\* hand is finished, and an item is got only when the sender is back at the
\* get, out of its pause, with the item before finished.
C24_SingleFlight ==
    [][/\ \A seq \in 1..(put_count - Len(message_queue)) :
            seq # msg.seq => Finished(seq)
       /\ msg' # msg =>
            /\ sender_pc = "get"
            /\ wait_time = 0
            /\ msg = NoMsg \/ Finished(msg.seq)
            /\ msg' = Head(message_queue)
      ]_vars

\* the second item is in hand after the first was sent, appended to the
\* history and paused for, a third waiting on the queue
C24_Witness ==
    /\ msg.seq = 2
    /\ sender_pc = "send"
    /\ 1 \in InHist
    /\ SentOk(1)
    /\ message_queue # <<>>

\* C25: a stream handler that waits for its backend holds up no delivery:
\* every item put on the queue is got and gone through by the sender, however
\* many handlers are waiting and however long.
C25_StalledStreamsHoldNothingUp ==
    \A n \in 1..MaxFragments : (put_count >= n) ~> Handled(n)

\* two handlers wait for their backends, and the sender has just sent the
\* notice one of them had put
C25_Witness ==
    /\ Cardinality({caller \in Callers : Stalled(caller)}) = max_workers
    /\ sender_pc = "notice_hist"
    /\ sends[Len(sends)].ok
    /\ streams[sends[Len(sends)].from_wxid].state = "running"

\* C26: a reply whose backend has sent a fragment goes on: the fragment is
\* taken by the reply's handler, whatever the other replies do.
C26_EveryStreamGoesOn ==
    \A caller \in Callers :
        (streams[caller].pending # <<>>) ~> (streams[caller].pending = <<>>)

\* C27: a send that raised is tried again: when the sender has left an item
\* and is back at the get, every call of bot.send_*_message that raised was
\* followed by another call for the same item.
C27_FailedSendRetried ==
    sender_pc = "get" =>
        \A k \in DOMAIN sends :
            ~sends[k].ok => \E j \in (k + 1)..Len(sends) : sends[j].seq = sends[k].seq

\* the message types process_message has a branch for
KnownTypes == {1, 3, 34, 43, 49, 10002, 37, 51}

\* C28: an envelope of a type process_message has no branch for is logged and
\* nothing more: process_message returns, no save and no emit is made for it,
\* and an envelope that comes after it is handled as it is handled on its own.
C28_UnknownTypeNotFatal ==
    \A i \in DOMAIN arrived :
        arrived[i].MsgType \notin KnownTypes =>
            /\ messages[i].outcome = "done"
            /\ CallsOf(i) = <<>>
            /\ \A j \in (i + 1)..Len(arrived) :
                /\ messages[j].outcome \in {"done", "dropped"}
                /\ messages[j].protection = protection =>
                        /\ CallsOf(j) = process_message(arrived[j]).calls
                        /\ messages[j].message = process_message(arrived[j]).message

\* an envelope of an unknown type was received, and after it a text that was
\* saved and emitted
C28_Witness ==
    \E i \in DOMAIN arrived, j \in DOMAIN arrived :
        /\ i < j
        /\ arrived[i].MsgType \notin KnownTypes
        /\ arrived[j].MsgType = 1
        /\ \E k \in DOMAIN calls : calls[k].MsgId = j /\ calls[k].call = "emit"

\* the events emitted for the i-th envelope, in order
EventsOf(i) ==
    LET emitted == SelectSeq(calls, LAMBDA made : made.MsgId = i /\ made.call = "emit")
    IN  [k \in DOMAIN emitted |-> emitted[k].event]

\* ats as process_text_message makes it of the MsgSource of the envelope
AtsOf(envelope) == AtList(Parse(envelope.MsgSource).root)

\* the bot's own id is among the ats
BotIn(ats) == \E k \in DOMAIN ats : ats[k] = self_wxid

\* the events went out when the i-th envelope came: the policy lets the
\* conversation or the sender through and no protection held them back
WentOut(i) ==
    /\ ignore_check(messages[i].message.FromWxid, messages[i].message.SenderWxid)
    /\ ignore_protection \/ ~messages[i].protection

\* C29: a text whose MsgSource has no atuserlist has no ats and is not failed
\* for it: it is saved, and emitted as a text_message when the policy and the
\* protection let it out.  at_message is emitted only when the bot's id is
\* among the ats, and then no text_message is emitted for the message.
C29_MentionsOptional ==
    \A i \in DOMAIN arrived :
        arrived[i].MsgType = 1 /\ Parse(arrived[i].MsgSource).ok =>
            /\ ~Has(Parse(arrived[i].MsgSource).root, "atuserlist") =>
                /\ AtsOf(arrived[i]) = <<>>
                /\ messages[i].outcome = "done"
                /\ Cardinality(SavesOf(i)) = 1
                /\ EventsOf(i) = IF WentOut(i) THEN <<"text_message">> ELSE <<>>
            /\ \A k \in DOMAIN EventsOf(i) :
                /\ EventsOf(i)[k] \in {"at_message", "text_message"}
                /\ EventsOf(i)[k] = "at_message" =>
                    /\ BotIn(AtsOf(arrived[i]))
                    /\ EventsOf(i) = <<"at_message">>
            /\ BotIn(AtsOf(arrived[i])) =>
                    EventsOf(i) = IF WentOut(i) THEN <<"at_message">> ELSE <<>>

\* a text with no atuserlist went out as a text_message and a text that ats
\* the bot went out as an at_message
C29_Witness ==
    \E i \in DOMAIN arrived, j \in DOMAIN arrived :
        /\ arrived[i].MsgType = 1
        /\ Parse(arrived[i].MsgSource).ok
        /\ ~Has(Parse(arrived[i].MsgSource).root, "atuserlist")
        /\ EventsOf(i) = <<"text_message">>
        /\ arrived[j].MsgType = 1
        /\ BotIn(AtsOf(arrived[j]))
        /\ EventsOf(j) = <<"at_message">>

\* the envelope is an XML message that holds a link: appmsg of type 4 or 5
IsLink(envelope) ==
    /\ envelope.MsgType = 49
    /\ Markup(envelope).ok
    /\ Has(Markup(envelope).root, "appmsg")
    /\ Has(Markup(envelope).root.appmsg, "type")
    /\ Markup(envelope).root.appmsg.type \in {4, 5}

\* C30: a link is decoded and emitted whether its source names an app or not:
\* the handler runs to its end, and link_message goes out when the policy and
\* the protection let it.
C30_LinkDecodedWithoutAppName ==
    \A i \in DOMAIN arrived :
        IsLink(arrived[i]) =>
            /\ messages[i].outcome = "done"
            /\ EventsOf(i) = IF WentOut(i) THEN <<"link_message">> ELSE <<>>

---------------------------------------------------------------------------
\* claims on the segments

\* the text of the stream that follows the k-th cut: what the cut leaves in
\* the buffer and what the chunks after it add
AfterCut(k) ==
    Drop(cuts[k].buffer, cuts[k].pos)
        \o Accumulated(SubSeq(chunks_seen, cuts[k].chunk + 1, Len(chunks_seen)))

\* the k-th cut is made right after a run of terminators that is whole: the
\* text of the stream does not go on with a terminator
AfterWholeRun(k) ==
    /\ cuts[k].buffer[cuts[k].pos] \in Terminators
    /\ AfterCut(k) = <<>> \/ AfterCut(k)[1] \notin Terminators

\* the k-th cut is made right after a paragraph break
AtParagraphBreak(k) ==
    /\ cuts[k].pos >= 2
    /\ cuts[k].buffer[cuts[k].pos - 1] = "\n"
    /\ cuts[k].buffer[cuts[k].pos] = "\n"

\* C31: every mid-stream cut is made right after a whole run of terminators,
\* never inside one, or at a paragraph break; the segments are on the queue in
\* the order they were cut; and "Hello", " world.", " This is", " a test."
\* gives "Hello world." and "This is a test." and nothing else.
C31_CutsAtBoundaries ==
    /\ \A k \in DOMAIN cuts : AfterWholeRun(k) \/ AtParagraphBreak(k)
    /\ \A i \in DOMAIN message_queue : message_queue[i].seq = i
    /\ /\ stream_split_sentence
       /\ stream_pc = "done"
       /\ chunks_seen = <<TextChunk(Hello, ""), TextChunk(SpWorld, ""),
                          TextChunk(SpThisIs, ""), TextChunk(SpATest, "")>>
       => [i \in DOMAIN message_queue |-> message_queue[i].content]
            = <<Hello \o SpWorld, Tail(SpThisIs) \o SpATest>>

\* the buffer ends with a run of terminators, and is long enough and outside
\* any quotation and any code fence
EndsWithRun(buffer) ==
    /\ Len(buffer) >= min_split_length
    /\ buffer[Len(buffer)] \in Terminators
    /\ CountFence(buffer, 0) % 2 = 0
    /\ ~OpenQuoteAt(buffer, Len(buffer))

\* C32: a buffer that ends with a run of terminators, CJK or Latin, is cut
\* right after the run, whether or not whitespace comes before the sentence:
\* with sentence splitting switched on, after a chunk of text the buffer never
\* ends with such a run.
C32_CutAfterEveryRun ==
    /\ stream_split_sentence
    /\ chunks_seen # <<>>
    /\ chunks_seen[Len(chunks_seen)].content # <<>>
    /\ chunks_seen[Len(chunks_seen)].chunk_type # "connect"
    /\ stream_pc = "iter"
    => ~EndsWithRun(content_buffer)

\* C33: no segment shorter than the minimum length is cut off in mid-stream.
C33_NoShortSegment ==
    \A k \in DOMAIN cuts :
        Len(SegmentAt(cuts[k].buffer, cuts[k].pos)) >= min_split_length

\* C34: an error at one chunk does not end the loop over the reply: no step
\* takes the handler out of "for chunk in reply" but the end of the reply.
C34_ChunkErrorNotFatal ==
    [][stream_pc = "iter" => stream_pc' \in {"iter", "done"}]_vars

\* ---------------------------------------------------------- should_respond

\* self.active_interval, in seconds: config.get("active_interval", 300)
active_interval == 300

\* self.agent_names
agent_names == {<<"A", "i">>}

\* str.lower() of one character, over the letters the messages are made of
LowerChar(c) ==
    CASE c = "A" -> "a"
      [] c = "H" -> "h"
      [] c = "I" -> "i"
      [] OTHER -> c

Lower(text) == [i \in DOMAIN text |-> LowerChar(text[i])]

\* word in text, of two strings
Contains(text, word) == \E at \in 0..Len(text) : StartsWith(text, at, word)

\* d.get(key, default) of a dict d
Get(d, key, default) == IF key \in DOMAIN d THEN d[key] ELSE default

\* the dict d after d[key] = value
Set(d, key, value) ==
    [k \in DOMAIN d \cup {key} |-> IF k = key THEN value ELSE d[k]]

\* should_respond(message, current_time) with self.last_group_chat_time =
\* record: what it returns and the record it leaves
should_respond(record, message, current_time) ==
    LET include_name ==
            \E name \in agent_names : Contains(Lower(message.Content), Lower(name))
        last_time == Get(record, message.FromWxid, 0)
        gap == current_time - last_time
    IN  IF ~message.IsGroup
        THEN [returned |-> TRUE, record |-> record]
        ELSE IF include_name
        THEN [returned |-> TRUE, record |-> Set(record, message.FromWxid, current_time)]
        ELSE IF gap > active_interval * 1000
        THEN [returned |-> TRUE, record |-> Set(record, message.FromWxid, current_time)]
        ELSE [returned |-> FALSE, record |-> record]

\* most calls of should_respond
MaxCalls == 3

\* "hi AI"
HiAi == <<"h", "i", " ", "A", "I">>

\* the messages should_respond is asked about: a private one, and of two groups
\* one that names the agent, one that does not and one with no text
PolicyMessages ==
    {[IsGroup |-> FALSE, FromWxid |-> "wxid_peer", Content |-> Hi]}
        \cup [IsGroup : {TRUE}, FromWxid : {"room1@chatroom", "room2@chatroom"},
              Content : {Hi, HiAi, <<>>}]

\* the times of the calls, in seconds since the epoch
Clock == {1000, 1200, 1301, 2000, 301301, 700000}

\* the time of the last call, 0 before the first
LastCall ==
    IF respond_calls = <<>> THEN 0 ELSE respond_calls[Len(respond_calls)].current_time

\* a message arrives and should_respond is asked about it
ShouldRespond ==
    /\ Len(respond_calls) < MaxCalls
    /\ \E message \in PolicyMessages, current_time \in Clock :
        /\ current_time >= LastCall
        /\ \E r \in {should_respond(last_group_chat_time, message, current_time)} :
            /\ last_group_chat_time' = r.record
            /\ respond_calls' =
                    Append(respond_calls,
                           [message |-> message, current_time |-> current_time,
                            before |-> last_group_chat_time, returned |-> r.returned,
                            after |-> r.record])
    /\ UNCHANGED <<queue_vars, stream_vars, sender_vars, xybot_vars, pool_vars, split_vars>>

PolicyNext == ShouldRespond

\* the response-eligibility check over the messages that arrive
PolicySpec == Init /\ [][PolicyNext]_vars

\* --------------------------------------------------- claims on should_respond

\* the record holds the same for every conversation but chat
SameBut(before, after, chat) ==
    /\ DOMAIN after \ {chat} = DOMAIN before \ {chat}
    /\ \A k \in DOMAIN before \ {chat} : after[k] = before[k]

\* C35: should_respond returns True for every private message; for a group
\* message that holds no agent name it returns True exactly when more than
\* active_interval seconds have passed since the time recorded for the
\* conversation; it writes the record of the message's own conversation only,
\* and only when it returns True for a group message.
C35_ShouldRespond ==
    \A k \in DOMAIN respond_calls :
        LET c == respond_calls[k]
            named == \E name \in agent_names :
                        Contains(Lower(c.message.Content), Lower(name))
            gap == c.current_time - Get(c.before, c.message.FromWxid, 0)
        IN  /\ ~c.message.IsGroup => c.returned
            /\ c.message.IsGroup /\ ~named => (c.returned <=> gap > active_interval)
            /\ SameBut(c.before, c.after, c.message.FromWxid)
            /\ c.after # c.before => c.message.IsGroup /\ c.returned

\* ------------------------------------------- _split_content_by_punctuation

\* most pieces a reply that is not streamed is made of
MaxPieces == 3

\* the pieces of the replies: words, sentences, a paragraph break, blanks, an
\* open quotation and its end, an open code fence, a speech longer than the
\* look-back of the split check
Pieces ==
    {Hello, SpWorld, SpThisIs, SpATest, ParagraphNext, Blank, QuoteOpen, QuoteCloseSaid,
     FenceOpen, LongSpeech}

RECURSIVE Joined(_)
Joined(pieces) == IF pieces = <<>> THEN <<>> ELSE Head(pieces) \o Joined(Tail(pieces))

\* the contents _split_content_by_punctuation is called with: never empty
\* (_process_message calls it under "if content"), the long speech in them
\* once at most
SplitInputs ==
    {Joined(pieces) :
        pieces \in {p \in UNION {[1..n -> Pieces] : n \in 1..MaxPieces} :
                        Cardinality({i \in DOMAIN p : p[i] = LongSpeech}) <= 1}}

\* a while test that looks at the length of the buffer alone
LoopTestLengthOnly(buffer, last) == Len(buffer) >= min_split_length

\* the while test
LoopTest(buffer, last) == Len(buffer) >= min_split_length /\ Len(buffer) > last

\* the call: the locals as they are before the loop
SplitCall ==
    /\ split_pc = "idle"
    /\ \E c \in SplitInputs :
        /\ split_input' = c
        /\ split_buffer' = c
    /\ last_check_length' = 0
    /\ split_result' = <<>>
    /\ split_turns' = 0
    /\ split_pc' = "loop"
    /\ UNCHANGED <<queue_vars, stream_vars, sender_vars, xybot_vars, pool_vars, policy_vars>>

\* one turn of the while loop: the test held, the body
SplitIterate ==
    /\ split_pc = "loop"
    /\ LoopTest(split_buffer, last_check_length)
    /\ split_turns' = split_turns + 1
    /\ \E r \in {_check_chunk_end_for_split(split_buffer)} :
        IF r.found /\ ~r.in_special
        THEN /\ split_result' = IF SegmentAt(split_buffer, r.pos) # <<>>
                                THEN Append(split_result, SegmentAt(split_buffer, r.pos))
                                ELSE split_result
             /\ split_buffer' = RemainderAt(split_buffer, r.pos)
             /\ last_check_length' = 0
             /\ split_pc' = "loop"
        ELSE /\ last_check_length' = Len(split_buffer)
             /\ split_pc' = IF r.in_special THEN "break" ELSE "loop"
             /\ UNCHANGED <<split_result, split_buffer>>
    /\ UNCHANGED <<split_input, queue_vars, stream_vars, sender_vars, xybot_vars, pool_vars,
                   policy_vars>>

\* after the loop: what is left is appended, and the function returns
SplitReturn ==
    /\ \/ split_pc = "break"
       \/ split_pc = "loop" /\ ~LoopTest(split_buffer, last_check_length)
    /\ split_result' = IF Strip(split_buffer) # <<>>
                       THEN Append(split_result, Strip(split_buffer))
                       ELSE split_result
    /\ split_pc' = "returned"
    /\ UNCHANGED <<split_input, split_buffer, last_check_length, split_turns, queue_vars,
                   stream_vars, sender_vars, xybot_vars, pool_vars, policy_vars>>

SplitNext == SplitCall \/ SplitIterate \/ SplitReturn

\* one call of _split_content_by_punctuation
SplitSpec == Init /\ [][SplitNext]_vars

\* ------------------------------ claims on _split_content_by_punctuation

\* the parts are pieces of text from position from on, one after the other
RECURSIVE InOrderFrom(_, _, _)
InOrderFrom(parts, text, from) ==
    \/ parts = <<>>
    \/ \E at \in from..Len(text) :
        /\ StartsWith(text, at, parts[1])
        /\ InOrderFrom(Tail(parts), text, at + Len(parts[1]))

\* C36: _split_content_by_punctuation returns for every content: a turn of its
\* loop shortens the buffer or is the last one, so the loop takes no more
\* turns than the content has characters, and one more; and what it returns
\* are parts that are not empty, in the order they have in the content.
C36_SplitTerminates ==
    /\ [][split_pc = "loop" /\ split_pc' = "loop"
            => \/ Len(split_buffer') < Len(split_buffer)
               \/ ~LoopTest(split_buffer', last_check_length')]_vars
    /\ [](split_turns <= Len(split_input) + 1)
    /\ [](split_pc = "returned"
            => /\ \A k \in DOMAIN split_result : split_result[k] # <<>>
               /\ InOrderFrom(split_result, split_input, 0))

\* a content of more than one part has been split, after a turn that found no
\* cut or after a cut
C36_Witness ==
    /\ split_pc = "returned"
    /\ Len(split_result) >= 2
    /\ last_check_length = 0

\* ------------------------------------------------- claims on what is sent

\* C37: a reply handled to its end, or to an exception, has put at least one
\* item on the queue for its conversation: a segment, a notice or the apology.
C37_EveryReplyAnswered ==
    stream_pc \in {"done", "failed"} => message_queue # <<>>

\* C38: send_text_message is never called with an empty text: at every send of
\* a text the content, after the echo prefix is removed and the whitespace
\* trimmed, is not empty.
C38_NoEmptyText ==
    [][sends' # sends /\ sender_pc = "send" /\ channel = "text" => content # <<>>]_vars

\* the sender paused after the send of the item: the item was a text or a
\* voice, append_msg2hist returned for it and the sleep was not interrupted
PausedAfter(k) ==
    /\ sends[k].channel # "link"
    /\ sends[k].seq \in InHist
    /\ ~\E f \in DOMAIN failures : failures[f].seq = sends[k].seq

\* C39: between two sends that follow each other the sender has paused: after
\* every send that returned, of a text, a voice or a notice, and before the
\* next send, the pause was taken.
C39_PausedBetweenSends ==
    \A k \in DOMAIN sends : k > 1 /\ sends[k - 1].ok => PausedAfter(k - 1)

\* the characters of text that are no whitespace, in order
NonWs(text) == SelectSeq(text, LAMBDA c : c \notin WhiteSpace)

\* the answer text of the chunks: the content fields, of the chunks that are
\* no notice and no connect chunk, in order
RECURSIVE AnswerOf(_)
AnswerOf(chunks) ==
    IF chunks = <<>>
    THEN <<>>
    ELSE LET chunk == Head(chunks)
         IN  (IF chunk.content_is_dict \/ chunk.chunk_type = "connect"
              THEN <<>>
              ELSE chunk.content) \o AnswerOf(Tail(chunks))

\* C40: no reasoning text is delivered: the texts put on the queue for the
\* reply and the text held in the buffer are, whitespace apart, the content
\* fields of the chunks taken and nothing else, whatever the order of reasoning
\* and answer chunks.
C40_ReasoningNotDelivered ==
    LET put == [i \in DOMAIN QueueTexts |-> QueueTexts[i].content]
        answered == IF stream_pc = "failed" THEN Take(put, Len(put) - 1) ELSE put
        held == IF stream_pc = "done" THEN <<>> ELSE content_buffer
    IN  NonWs(Joined(answered) \o held) = NonWs(AnswerOf(chunks_seen))

\* a reply with reasoning after the answer has begun, in a chunk of its own and
\* in a chunk that holds answer text too, has been cut and handled to its end
C40_Witness ==
    /\ stream_pc = "done"
    /\ Len(chunks_seen) = 4
    /\ chunks_seen[1] = TextChunk(Hi, "")
    /\ \E j, k \in 2..4 : chunks_seen[j] = ReasoningChunk(Hm) /\ chunks_seen[k] = ThinkingHello
    /\ Len(message_queue) >= 2

====
